---- MODULE Spec2Model ----
(***************************************************************************)
(* OptimalStrategy of app/router/balancing_optimal_strategy.go: the lazy   *)
(* start of the periodic measurement loop by PickOutbound, the rounds      *)
(* (run), the per-candidate trial runners (testOutboud) and the published  *)
(* tag.                                                                    *)
(*                                                                         *)
(* Memory is modelled at the granularity of machine words.  A Go string    *)
(* (s.tag) and a Go slice (s.tags) are multi-word headers; the code stores *)
(* and loads them without synchronisation, so a store is two word stores   *)
(* in either order and a load sees whatever words are in memory.           *)
(***************************************************************************)
EXTENDS Integers, Sequences, FiniteSets, TLC

\* ------------------------------------------------------------------ bounds
MaxCalls    == 2    \* PickOutbound calls made in one behaviour
MaxRounds   == 2    \* rounds executed by one periodic loop
MaxPeriodic == 2    \* task.Periodic objects that can be allocated

\* ------------------------------------------------------------------ inputs
Callers  == {"g1", "g2"}            \* goroutines calling PickOutbound
Tags     == {"a", "bb", "c", "d", "e", "f", "g"}   \* outbound tags
Managers == {"m1", "m2", "m3"}      \* outbound.Manager values
NoObm    == "nil"
CfgCounts == {1}                    \* BalancingOptimalStrategyConfig.Count

\* the arguments callers pass: an outbound manager and a candidate list
CallInputs == {<<"m1", << >> >>, <<"m1", <<"a">> >>,
               <<"m1", <<"a", "bb">> >>, <<"m2", <<"bb", "a">> >>}

\* outbound.Manager.GetHandler(tag) # nil
HasHandler(m, t) ==
  \/ m = "m1"
  \/ m = "m2" /\ t = "a"
  \/ m = "m3" /\ t \in {"bb", "g"}

\* ------------------------------------------------------------- probes
\* What one GET gives back after secs seconds: an error from client.Do
\* (refused, reset, timed out before the response header), a response whose
\* body arrives whole, or a response whose body stops arriving (reset, timed
\* out) after the lines in body have been read.  A body is a sequence of
\* lines; a line is n bytes other than "\n" that do not end in "\r", then cr
\* bytes "\r" (0 or 1), then nl bytes "\n" (0 or 1; 0 on the last line only).
Line(n, cr, nl) == [n |-> n, cr |-> cr, nl |-> nl]
Bytes(k) == <<Line(k, 0, 0)>>       \* k bytes, no line terminator
Fail == [err |-> TRUE, cut |-> FALSE, body |-> << >>, secs |-> 1]
Ok(b, t) == [err |-> FALSE, cut |-> FALSE, body |-> b, secs |-> t]
Cut(b, t) == [err |-> FALSE, cut |-> TRUE, body |-> b, secs |-> t]

\* one byte after two seconds, or an error
NetBasic == {Fail, Ok(Bytes(1), 2)}

\* ------------------------------------------------------------ Go values
\* len(t) of a tag
TagLen(t) == IF t = "bb" THEN 2 ELSE IF t \in Tags THEN 1 ELSE 0

\* string header of the string t: data pointer and length
StrOf(t) == [ptr |-> t, len |-> TagLen(t)]
NilStr   == [ptr |-> "", len |-> 0]
\* a header whose two words belong to the same string
Whole(h) == h.len = TagLen(h.ptr)

\* slice header of the list l: array pointer and length
SliceOf(l) == [ptr |-> l, len |-> Len(l)]
NilSlice   == [ptr |-> << >>, len |-> 0]

Other(w) == IF w = "ptr" THEN "len" ELSE "ptr"

\* float64 scores are kept as exact fractions
Zero == [num |-> 0, den |-> 1]

VARIABLES
  \* the configuration handed to NewOptimalStrategy and how the call ended
  config, built,
  \* OptimalStrategy
  timeout, interval, url, count, obm, tag, tags, periodic, periodicMutex,
  \* PickOutbound activations
  pc, argObm, argTags, half, local, ret,
  \* task.Periodic objects and their rounds
  loopPc, rtags, results, runner, scores, wg, loopHalf,
  \* the outcomes the network can give a probe, and those each runner got
  net, trials,
  \* the trial each runner is in, and the connections its dials have made
  doing, conns,
  \* bookkeeping
  calls, rounds, begun, created, launched, creatorTags, lastPub

cfgVars   == <<config, built, timeout, interval, url, count, net>>
stratVars == <<cfgVars, obm, tag, tags, periodic, periodicMutex>>
callVars  == <<pc, argObm, argTags, half, local, ret>>
loopVars  == <<loopPc, rtags, results, runner, scores, trials, wg, loopHalf>>
histVars  == <<calls, rounds, begun, created, launched, creatorTags, lastPub>>
probeVars == <<doing, conns>>
vars == <<stratVars, callVars, loopVars, histVars, probeVars>>

Periodics == 1..MaxPeriodic

\* what a PickOutbound activation handed back: nothing yet, a panic, or a string
NoRet      == [kind |-> "none", val |-> NilStr]
Panicked   == [kind |-> "panic", val |-> NilStr]
Returned(h) == [kind |-> "tag", val |-> h]

\* a constructor that keeps a Count of 0
NewCountKeepsZero(c) == c

\* NewOptimalStrategy: config.Count == 0 gives 3
NewCount(c) == IF c = 0 THEN 3 ELSE c

\* ------------------------------------------------------ machine integers
\* An unsigned or two's complement integer of k bytes is the sequence of its
\* bytes, least significant first.
U32(n) == [i \in 1..4 |-> (n \div (256 ^ (i - 1))) % 256]

\* the conversion of an unsigned value to a wider integer
ZeroExtend(w, k) == [i \in 1..k |-> IF i <= Len(w) THEN w[i] ELSE 0]

I64(n) == ZeroExtend(U32(n), 8)

IsZeroWord(w) == \A i \in DOMAIN w : w[i] = 0

\* x[1]*y[k] + x[2]*y[k-1] + ... + x[k]*y[1]
RECURSIVE Dot(_, _, _, _)
Dot(x, y, k, i) ==
  IF i > k THEN 0 ELSE x[i] * y[k + 1 - i] + Dot(x, y, k, i + 1)

\* the bytes from the k-th on of the product of x and y, cut to the width of x
RECURSIVE MulFrom(_, _, _, _)
MulFrom(x, y, k, carry) ==
  IF k > Len(x) THEN << >>
  ELSE LET s == carry + Dot(x, y, k, 1)
       IN <<s % 256>> \o MulFrom(x, y, k + 1, s \div 256)

\* int64 multiplication: the low 64 bits of the product
Mul(x, y) == MulFrom(x, y, 1, 0)

\* quotient and remainder of the unsigned word w by d (d at most 2^23)
RECURSIVE DivRem(_, _)
DivRem(w, d) ==
  IF w = << >> THEN [q |-> << >>, r |-> 0]
  ELSE CHOOSE x \in {[q |-> <<(hi.r * 256 + Head(w)) \div d>> \o hi.q,
                       r |-> (hi.r * 256 + Head(w)) % d] :
                        hi \in {DivRem(Tail(w), d)}} : TRUE

\* the value of a word below 2^31
RECURSIVE WordInt(_)
WordInt(w) == IF IsZeroWord(w) THEN 0 ELSE Head(w) + 256 * WordInt(Tail(w))

\* time.Millisecond and time.Second, in nanoseconds (time.Duration is int64)
Millisecond == I64(1000000)
Second      == I64(1000000000)

\* ------------------------------------------------------------- url.Parse
\* A string is the sequence of its characters.
Http   == <<"h", "t", "t", "p">>
Https  == <<"h", "t", "t", "p", "s">>
Slashes == <<"/", "/">>
GoogleUrl ==
  Https \o <<":">> \o Slashes \o
  <<"w", "w", "w", ".", "g", "o", "o", "g", "l", "e", ".", "c", "o", "m">>

Digits    == {"0", "1", "3", "4", "8"}
UpperCase == {"H", "T", "P", "S"}
LowerCase == {"c", "e", "f", "g", "h", "l", "m", "o", "p", "s", "t", "w", "x", "y"}

\* strings.ToLower, one character
ToLower(c) ==
  CASE c = "H" -> "h" [] c = "T" -> "t" [] c = "P" -> "p" [] c = "S" -> "s"
    [] OTHER -> c

HasPrefix(s, pre) == Len(s) >= Len(pre) /\ SubSeq(s, 1, Len(pre)) = pre

\* the position of the first c in s, Len(s) + 1 when there is none
RECURSIVE Index(_, _, _)
Index(s, c, i) ==
  IF i > Len(s) \/ s[i] = c THEN i ELSE Index(s, c, i + 1)

\* net/url getScheme: the scheme is a letter followed by letters, digits, "+",
\* "-", "." up to the first ":"; a ":" in front is an error; any other
\* character before a ":" means there is no scheme
RECURSIVE getScheme(_, _)
getScheme(rawURL, i) ==
  IF i > Len(rawURL)
    THEN [scheme |-> << >>, path |-> rawURL, err |-> FALSE]
  ELSE IF rawURL[i] \in UpperCase \cup LowerCase
    THEN getScheme(rawURL, i + 1)
  ELSE IF rawURL[i] \in Digits \cup {"+", "-", "."}
    THEN IF i = 1
           THEN [scheme |-> << >>, path |-> rawURL, err |-> FALSE]
           ELSE getScheme(rawURL, i + 1)
  ELSE IF rawURL[i] = ":"
    THEN IF i = 1
           THEN [scheme |-> << >>, path |-> << >>, err |-> TRUE]
           ELSE [scheme |-> SubSeq(rawURL, 1, i - 1),
                 path |-> SubSeq(rawURL, i + 1, Len(rawURL)), err |-> FALSE]
  ELSE [scheme |-> << >>, path |-> rawURL, err |-> FALSE]

\* the authority of "//authority/path"
Authority(rest) == SubSeq(rest, 3, Index(rest, "/", 3) - 1)

\* net/url parseHost and validOptionalPort: a space is no host character, and
\* what follows the host's ":" is a port, made of digits
BadAuthority(a) ==
  \/ \E i \in DOMAIN a : a[i] = " "
  \/ \E i \in DOMAIN a :
       /\ a[i] = ":" /\ \A j \in (i + 1)..Len(a) : a[j] # ":"
       /\ \E j \in (i + 1)..Len(a) : a[j] \notin Digits

\* a *url.URL: nil, or the scheme and what follows its ":"
NilUrl == [nil |-> TRUE, Scheme |-> << >>, Rest |-> << >>]
Url(scheme, rest) == [nil |-> FALSE, Scheme |-> scheme, Rest |-> rest]

\* url.Parse, for strings without "#", "?", "%" and "@": the URL and whether
\* an error is returned
ParseUrl(rawURL) ==
  LET g == getScheme(rawURL, 1)
      scheme == [i \in DOMAIN g.scheme |-> ToLower(g.scheme[i])]
      rest == g.path
      u == Url(scheme, rest)
  IN IF \E i \in DOMAIN rawURL : rawURL[i] = "\n"
       THEN [url |-> NilUrl, err |-> TRUE]      \* invalid control character
     ELSE IF g.err
       THEN [url |-> NilUrl, err |-> TRUE]      \* missing protocol scheme
     ELSE IF ~HasPrefix(rest, <<"/">>)
       THEN IF scheme # << >>
              THEN [url |-> u, err |-> FALSE]   \* rootless: opaque
            ELSE IF Index(rest, ":", 1) < Index(rest, "/", 1)
              THEN [url |-> NilUrl, err |-> TRUE] \* colon in first path segment
            ELSE [url |-> u, err |-> FALSE]
     ELSE IF HasPrefix(rest, Slashes) /\ (scheme # << >> \/ ~HasPrefix(rest, <<"/", "/", "/">>))
              /\ BadAuthority(Authority(rest))
       THEN [url |-> NilUrl, err |-> TRUE]
     ELSE [url |-> u, err |-> FALSE]

\* (*url.URL).String
UrlString(u) ==
  IF u.Scheme = << >> THEN u.Rest ELSE u.Scheme \o <<":">> \o u.Rest

\* a timeout counted in minutes: the product leaves the int64 range for large
\* values
NewTimeoutInMinutes(c) ==
  IF IsZeroWord(c) THEN Mul(Second, I64(5))
  ELSE Mul(Mul(Second, I64(60)), ZeroExtend(c, 8))

\* ---------------------------------------------------- NewOptimalStrategy
\* line 40-44
NewTimeout(c) ==
  IF IsZeroWord(c) THEN Mul(Second, I64(5)) ELSE Mul(Millisecond, ZeroExtend(c, 8))

\* an interval counted in seconds
NewIntervalInSeconds(c) ==
  IF IsZeroWord(c)
    THEN Mul(Mul(Second, I64(60)), I64(10))
    ELSE Mul(Second, ZeroExtend(c, 8))

\* line 45-49
NewInterval(c) ==
  IF IsZeroWord(c)
    THEN Mul(Mul(Second, I64(60)), I64(10))
    ELSE Mul(Millisecond, ZeroExtend(c, 8))

\* a constructor that accepts every URL that parses
NewUrlAnyScheme(c) ==
  IF c = << >> THEN [url |-> ParseUrl(GoogleUrl).url, panic |-> FALSE]
  ELSE [url |-> ParseUrl(c).url, panic |-> ParseUrl(c).err]

\* line 50-61: s.url, and whether line 56 or line 59 panics
NewUrl(c) ==
  IF c = << >> THEN [url |-> ParseUrl(GoogleUrl).url, panic |-> FALSE]
  ELSE IF ParseUrl(c).err THEN [url |-> ParseUrl(c).url, panic |-> TRUE]
  ELSE [url |-> ParseUrl(c).url,
        panic |-> ParseUrl(c).url.Scheme # Http /\ ParseUrl(c).url.Scheme # Https]

\* a BalancingOptimalStrategyConfig
Config(t, i, u, c) == [Timeout |-> t, Interval |-> i, Url |-> u, Count |-> c]

\* the state in which NewOptimalStrategy(cfg) has returned the strategy
Constructed(cfg) ==
  /\ config = cfg /\ built = "yes"
  /\ timeout = NewTimeout(cfg.Timeout)
  /\ interval = NewInterval(cfg.Interval)
  /\ url = NewUrl(cfg.Url).url
  /\ count = NewCount(cfg.Count)

\* the fields PickOutbound and run write hold their zero values, nobody has
\* called PickOutbound and no loop exists
Unused ==
  /\ obm = NoObm
  /\ tag = NilStr
  /\ tags = NilSlice
  /\ periodic = 0
  /\ periodicMutex = "free"
  /\ pc = [c \in Callers |-> "idle"]
  /\ argObm = [c \in Callers |-> NoObm]
  /\ argTags = [c \in Callers |-> << >>]
  /\ half = [c \in Callers |-> "none"]
  /\ local = [c \in Callers |-> NilStr]
  /\ ret = [c \in Callers |-> NoRet]
  /\ loopPc = [p \in Periodics |-> "off"]
  /\ rtags = [p \in Periodics |-> << >>]
  /\ results = [p \in Periodics |-> << >>]
  /\ runner = [p \in Periodics |-> << >>]
  /\ scores = [p \in Periodics |-> << >>]
  /\ trials = [p \in Periodics |-> << >>]
  /\ wg = [p \in Periodics |-> 0]
  /\ loopHalf = [p \in Periodics |-> "none"]
  /\ calls = 0
  /\ rounds = [p \in Periodics |-> 0]
  /\ begun = [p \in Periodics |-> 0]
  /\ created = 0
  /\ launched = 0
  /\ creatorTags = << >>
  /\ lastPub = NilStr

\* no trial is described and no connection exists
NoProbes == doing = << >> /\ conns = {}

Init ==
  /\ \E c \in CfgCounts : Constructed(Config(U32(0), U32(0), << >>, c))
  /\ net = NetBasic
  /\ NoProbes
  /\ Unused

\* ------------------------------------------------------------ PickOutbound
\* A caller enters PickOutbound(m, l).  The arguments stay in argObm/argTags
\* and the result in ret until the caller's next call.

\* the panic placed after s.obm = obm
PickOutboundPanicLate(c) ==
  /\ pc[c] = "idle" /\ calls < MaxCalls
  /\ \E in \in CallInputs : LET m == in[1]  l == in[2] IN
       /\ Len(l) = 0
       /\ argObm' = [argObm EXCEPT ![c] = m]
       /\ argTags' = [argTags EXCEPT ![c] = l]
       /\ obm' = m
  /\ ret' = [ret EXCEPT ![c] = Panicked]
  /\ calls' = calls + 1
  /\ UNCHANGED <<probeVars, cfgVars, tag, tags, periodic, periodicMutex, pc, half, local, loopVars,
                 rounds, begun, created, launched, creatorTags, lastPub>>

\* line 73-74: len(tags) == 0 panics
PickOutboundPanic(c) ==
  /\ pc[c] = "idle" /\ calls < MaxCalls
  /\ \E in \in CallInputs : LET m == in[1]  l == in[2] IN
       /\ Len(l) = 0
       /\ argObm' = [argObm EXCEPT ![c] = m]
       /\ argTags' = [argTags EXCEPT ![c] = l]
  /\ ret' = [ret EXCEPT ![c] = Panicked]
  /\ calls' = calls + 1
  /\ UNCHANGED <<probeVars, stratVars, pc, half, local, loopVars,
                 rounds, begun, created, launched, creatorTags, lastPub>>

\* the one-tag return placed after s.obm = obm
PickOutboundSingleLate(c) ==
  /\ pc[c] = "idle" /\ calls < MaxCalls
  /\ \E in \in CallInputs : LET m == in[1]  l == in[2] IN
       /\ Len(l) = 1
       /\ argObm' = [argObm EXCEPT ![c] = m]
       /\ argTags' = [argTags EXCEPT ![c] = l]
       /\ obm' = m
  /\ ret' = [ret EXCEPT ![c] = Returned(tag)]
  /\ calls' = calls + 1
  /\ UNCHANGED <<probeVars, cfgVars, tag, tags, periodic, periodicMutex, pc, half, local, loopVars,
                 rounds, begun, created, launched, creatorTags, lastPub>>

\* a one-tag call that stores its list before it returns
PickOutboundSingleStoresTags(c) ==
  /\ pc[c] = "idle" /\ calls < MaxCalls
  /\ \E in \in CallInputs : LET m == in[1]  l == in[2] IN
       /\ Len(l) = 1
       /\ argObm' = [argObm EXCEPT ![c] = m]
       /\ argTags' = [argTags EXCEPT ![c] = l]
       /\ tags' = SliceOf(l)
  /\ ret' = [ret EXCEPT ![c] = Returned(tag)]
  /\ calls' = calls + 1
  /\ UNCHANGED <<probeVars, cfgVars, obm, tag, periodic, periodicMutex, pc, half, local, loopVars,
                 rounds, begun, created, launched, creatorTags, lastPub>>

\* line 75-76: len(tags) == 1 returns s.tag
PickOutboundSingle(c) ==
  /\ pc[c] = "idle" /\ calls < MaxCalls
  /\ \E in \in CallInputs : LET m == in[1]  l == in[2] IN
       /\ Len(l) = 1
       /\ argObm' = [argObm EXCEPT ![c] = m]
       /\ argTags' = [argTags EXCEPT ![c] = l]
  /\ ret' = [ret EXCEPT ![c] = Returned(tag)]
  /\ calls' = calls + 1
  /\ UNCHANGED <<probeVars, stratVars, pc, half, local, loopVars,
                 rounds, begun, created, launched, creatorTags, lastPub>>

\* line 73-77 with len(tags) >= 2: falls through to line 79
PickOutboundEnter(c) ==
  /\ pc[c] = "idle" /\ calls < MaxCalls
  /\ \E in \in CallInputs : LET m == in[1]  l == in[2] IN
       /\ Len(l) >= 2
       /\ argObm' = [argObm EXCEPT ![c] = m]
       /\ argTags' = [argTags EXCEPT ![c] = l]
  /\ ret' = [ret EXCEPT ![c] = NoRet]
  /\ pc' = [pc EXCEPT ![c] = "l79"]
  /\ calls' = calls + 1
  /\ UNCHANGED <<probeVars, stratVars, half, local, loopVars,
                 rounds, begun, created, launched, creatorTags, lastPub>>

\* line 79: s.obm = obm
StoreObm(c) ==
  /\ pc[c] = "l79"
  /\ obm' = argObm[c]
  /\ pc' = [pc EXCEPT ![c] = "l80"]
  /\ UNCHANGED <<probeVars, cfgVars, tag, tags, periodic, periodicMutex,
                 argObm, argTags, half, local, ret, loopVars, histVars>>

\* line 80: s.tags = tags, the first of the two word stores
StoreTags1(c) ==
  /\ pc[c] = "l80" /\ half[c] = "none"
  /\ \E w \in {"ptr", "len"} :
       /\ tags' = [tags EXCEPT ![w] = SliceOf(argTags[c])[w]]
       /\ half' = [half EXCEPT ![c] = w]
  /\ UNCHANGED <<probeVars, cfgVars, obm, tag, periodic, periodicMutex,
                 pc, argObm, argTags, local, ret, loopVars, histVars>>

\* line 80: the other word store
StoreTags2(c) ==
  /\ pc[c] = "l80" /\ half[c] # "none"
  /\ tags' = [tags EXCEPT ![Other(half[c])] = SliceOf(argTags[c])[Other(half[c])]]
  /\ half' = [half EXCEPT ![c] = "none"]
  /\ pc' = [pc EXCEPT ![c] = "l82"]
  /\ UNCHANGED <<probeVars, cfgVars, obm, tag, periodic, periodicMutex,
                 argObm, argTags, local, ret, loopVars, histVars>>

\* line 82: if s.periodic == nil, read without the mutex
CheckPeriodic(c) ==
  /\ pc[c] = "l82"
  /\ pc' = [pc EXCEPT ![c] = IF periodic = 0 THEN "l83" ELSE "l95"]
  /\ UNCHANGED <<probeVars, stratVars, argObm, argTags, half, local, ret, loopVars, histVars>>

\* a lock that does not wait for its holder
LockNoWait(c) ==
  /\ pc[c] = "l83"
  /\ periodicMutex' = c
  /\ pc' = [pc EXCEPT ![c] = "l84"]
  /\ UNCHANGED <<probeVars, cfgVars, obm, tag, tags, periodic,
                 argObm, argTags, half, local, ret, loopVars, histVars>>

\* line 83: s.periodicMutex.Lock()
Lock(c) ==
  /\ pc[c] = "l83"
  /\ periodicMutex = "free"
  /\ periodicMutex' = c
  /\ pc' = [pc EXCEPT ![c] = "l84"]
  /\ UNCHANGED <<probeVars, cfgVars, obm, tag, tags, periodic,
                 argObm, argTags, half, local, ret, loopVars, histVars>>

\* the lock taken but s.periodic not looked at again
RecheckSkipped(c) ==
  /\ pc[c] = "l84"
  /\ pc' = [pc EXCEPT ![c] = "l85"]
  /\ UNCHANGED <<probeVars, stratVars, argObm, argTags, half, local, ret, loopVars, histVars>>

\* line 84: if s.periodic == nil, read under the mutex
Recheck(c) ==
  /\ pc[c] = "l84"
  /\ pc' = [pc EXCEPT ![c] = IF periodic = 0 THEN "l85" ELSE "l92"]
  /\ UNCHANGED <<probeVars, stratVars, argObm, argTags, half, local, ret, loopVars, histVars>>

\* s.tags[0] as line 85 loads it: element 0 of the array the header points to
\* (the bounds check needs len > 0)
TagsAt0(h) == IF h.len > 0 /\ Len(h.ptr) > 0 THEN StrOf(h.ptr[1]) ELSE NilStr

\* line 85: s.tag = s.tags[0], the load and the first word store
StoreDefault1(c) ==
  /\ pc[c] = "l85" /\ half[c] = "none"
  /\ local' = [local EXCEPT ![c] = TagsAt0(tags)]
  /\ \E w \in {"ptr", "len"} :
       /\ tag' = [tag EXCEPT ![w] = TagsAt0(tags)[w]]
       /\ half' = [half EXCEPT ![c] = w]
  /\ UNCHANGED <<probeVars, cfgVars, obm, tags, periodic, periodicMutex,
                 pc, argObm, argTags, ret, loopVars, histVars>>

\* line 85: the other word store
StoreDefault2(c) ==
  /\ pc[c] = "l85" /\ half[c] # "none"
  /\ tag' = [tag EXCEPT ![Other(half[c])] = local[c][Other(half[c])]]
  /\ half' = [half EXCEPT ![c] = "none"]
  /\ local' = [local EXCEPT ![c] = NilStr]
  /\ lastPub' = local[c]
  /\ pc' = [pc EXCEPT ![c] = "l86"]
  /\ UNCHANGED <<probeVars, cfgVars, obm, tags, periodic, periodicMutex,
                 argObm, argTags, ret, loopVars,
                 calls, rounds, begun, created, launched, creatorTags>>

\* line 86-89: s.periodic = &task.Periodic{Interval, Execute: s.run}
NewPeriodic(c) ==
  /\ pc[c] = "l86"
  /\ created < MaxPeriodic
  /\ created' = created + 1
  /\ periodic' = created + 1
  /\ creatorTags' = argTags[c]
  /\ pc' = [pc EXCEPT ![c] = "l90"]
  /\ UNCHANGED <<probeVars, cfgVars, obm, tag, tags, periodicMutex,
                 argObm, argTags, half, local, ret, loopVars,
                 calls, rounds, begun, launched, lastPub>>

\* line 90: go s.periodic.Start()
GoStart(c) ==
  /\ pc[c] = "l90"
  /\ loopPc' = [loopPc EXCEPT ![periodic] = "start"]
  /\ launched' = launched + 1
  /\ pc' = [pc EXCEPT ![c] = "l92"]
  /\ UNCHANGED <<probeVars, stratVars, argObm, argTags, half, local, ret,
                 rtags, results, runner, scores, trials, wg, loopHalf,
                 calls, rounds, begun, created, creatorTags, lastPub>>

\* line 92: s.periodicMutex.Unlock()
Unlock(c) ==
  /\ pc[c] = "l92"
  /\ periodicMutex' = "free"
  /\ pc' = [pc EXCEPT ![c] = "l95"]
  /\ UNCHANGED <<probeVars, cfgVars, obm, tag, tags, periodic,
                 argObm, argTags, half, local, ret, loopVars, histVars>>

\* the return held back until a round has published
ReturnAfterRound(c) ==
  /\ pc[c] = "l95"
  /\ \E p \in Periodics : rounds[p] > 0
  /\ ret' = [ret EXCEPT ![c] = Returned(tag)]
  /\ pc' = [pc EXCEPT ![c] = "idle"]
  /\ UNCHANGED <<probeVars, stratVars, argObm, argTags, half, local, loopVars, histVars>>

\* line 95: return s.tag
Return(c) ==
  /\ pc[c] = "l95"
  /\ ret' = [ret EXCEPT ![c] = Returned(tag)]
  /\ pc' = [pc EXCEPT ![c] = "idle"]
  /\ UNCHANGED <<probeVars, stratVars, argObm, argTags, half, local, loopVars, histVars>>

PickOutbound(c) ==
  \/ PickOutboundPanic(c) \/ PickOutboundSingle(c) \/ PickOutboundEnter(c)
  \/ StoreObm(c) \/ StoreTags1(c) \/ StoreTags2(c)
  \/ CheckPeriodic(c) \/ Lock(c) \/ Recheck(c)
  \/ StoreDefault1(c) \/ StoreDefault2(c)
  \/ NewPeriodic(c) \/ GoStart(c) \/ Unlock(c) \/ Return(c)

\* ---------------------------------------------------------- task.Periodic
\* a timer that fires every interval whether or not Execute has returned
PeriodicDueTicker(p) == loopPc[p] \in {"start", "sleep", "run", "l124"}

\* Execute is invoked once when Start runs and again each time the interval
\* timer fires; the timer is armed when the previous Execute has returned.
PeriodicDue(p) == loopPc[p] \in {"start", "sleep"}

\* where the loop is once Execute has returned nil
PeriodicArmed == "sleep"

\* ------------------------------------------------------------------- run
\* the elements a slice header gives access to; past the end of the array it
\* points to, whatever memory holds
ReadSlice(h) == [i \in 1..h.len |-> IF i <= Len(h.ptr) THEN h.ptr[i] ELSE "?"]

\* line 105-117: snapshot s.tags, make the results, wg.Add, start the runners
runBegin(p) ==
  /\ PeriodicDue(p)
  /\ begun[p] < MaxRounds
  /\ LET ts == ReadSlice(tags) IN
       /\ rtags' = [rtags EXCEPT ![p] = ts]
       /\ results' = [results EXCEPT ![p] =
                        [i \in 1..Len(ts) |-> [tag |-> ts[i], score |-> Zero]]]
       /\ runner' = [runner EXCEPT ![p] = [i \in 1..Len(ts) |-> "go"]]
       /\ scores' = [scores EXCEPT ![p] = [i \in 1..Len(ts) |-> << >>]]
       /\ trials' = [trials EXCEPT ![p] = [i \in 1..Len(ts) |-> << >>]]
       /\ wg' = [wg EXCEPT ![p] = Len(ts)]
  /\ loopPc' = [loopPc EXCEPT ![p] = "run"]
  /\ begun' = [begun EXCEPT ![p] = begun[p] + 1]
  /\ UNCHANGED <<probeVars, stratVars, callVars, loopHalf,
                 calls, rounds, created, launched, creatorTags, lastPub>>

\* ------------------------------------------------------------ testOutboud
\* the return of line 138 taken without the wait group being told
testOutboudNoHandlerNoDone(p, i) ==
  /\ loopPc[p] = "run" /\ i \in DOMAIN runner[p]
  /\ runner[p][i] = "go"
  /\ ~HasHandler(obm, rtags[p][i])
  /\ runner' = [runner EXCEPT ![p][i] = "done"]
  /\ UNCHANGED <<probeVars, stratVars, callVars, loopPc, rtags, results, scores, trials, wg,
                 loopHalf, histVars>>

\* line 135-139: no handler for the tag: log and return (the deferred wg.Done)
testOutboudNoHandler(p, i) ==
  /\ loopPc[p] = "run" /\ i \in DOMAIN runner[p]
  /\ runner[p][i] = "go"
  /\ ~HasHandler(obm, rtags[p][i])
  /\ runner' = [runner EXCEPT ![p][i] = "done"]
  /\ wg' = [wg EXCEPT ![p] = wg[p] - 1]
  /\ UNCHANGED <<probeVars, stratVars, callVars, loopPc, rtags, results, scores, trials, loopHalf,
                 histVars>>

\* line 135: the handler exists
testOutboudHandler(p, i) ==
  /\ loopPc[p] = "run" /\ i \in DOMAIN runner[p]
  /\ runner[p][i] = "go"
  /\ HasHandler(obm, rtags[p][i])
  /\ runner' = [runner EXCEPT ![p][i] = "trial"]
  /\ UNCHANGED <<probeVars, stratVars, callVars, loopPc, rtags, results, scores, trials, wg,
                 loopHalf, histVars>>

\* line 154: bufio.NewScanner: the scanner's buffer grows to at most
\* bufio.MaxScanTokenSize bytes
MaxScanTokenSize == 65536

\* the line and its "\n", or the last line and the read that would report the
\* end of the body, fit in the scanner's buffer
Fits(l) == l.n + l.cr + 1 <= MaxScanTokenSize

\* line 153-157: the sum of len(scanner.Bytes()) over the tokens of
\* bufio.ScanLines: a line without its "\n" and without a "\r" before it;
\* Scan() returns false at the first line that does not fit, and when the body
\* stops arriving it hands out what was read as the last token
RECURSIVE ScanBytes(_)
ScanBytes(b) ==
  IF b = << >> \/ ~Fits(b[1]) THEN 0 ELSE b[1].n + ScanBytes(Tail(b))

\* x per elapsed second, in half units: time.Now() differences are 1 s or 2 s
PerSecond(x, t) == (x * 2) \div t

\* line 147-166: the score of one trial; scanner.Err() is not looked at
TrialScore(o) ==
  IF o.err THEN 0
  ELSE IF ScanBytes(o.body) # 0 THEN PerSecond(ScanBytes(o.body), o.secs)
  ELSE PerSecond(100, o.secs)

RECURSIVE SumSeq(_)
SumSeq(q) == IF q = << >> THEN 0 ELSE q[1] + SumSeq(Tail(q))
MinSeq(q) == CHOOSE x \in {q[i] : i \in DOMAIN q} : \A j \in DOMAIN q : x <= q[j]
MaxSeq(q) == CHOOSE x \in {q[i] : i \in DOMAIN q} : \A j \in DOMAIN q : x >= q[j]

\* a - b on uint32; a wrapped difference (at least 2^32 - 2 here) is beyond the
\* model checker's integers and is kept as the largest one it has
U32Sub(a, b) == IF a >= b THEN a - b ELSE 2147483647

\* the trimmed sum over the number of trials
AggregateOverCount(q, cnt) ==
  IF Len(q) < 3
    THEN [num |-> SumSeq(q), den |-> Len(q)]
    ELSE [num |-> SumSeq(q) - MinSeq(q) - MaxSeq(q), den |-> cnt]

\* two scores trimmed as three or more are
AggregateTrimFromTwo(q, cnt) ==
  IF Len(q) < 2
    THEN [num |-> SumSeq(q), den |-> Len(q)]
    ELSE [num |-> SumSeq(q) - MinSeq(q) - MaxSeq(q), den |-> U32Sub(cnt, 2)]

\* line 171-190: the mean under 3 scores, else the sum less one minimum and one
\* maximum over s.count-2 (uint32)
Aggregate(q, cnt) ==
  IF Len(q) < 3
    THEN [num |-> SumSeq(q), den |-> Len(q)]
    ELSE [num |-> SumSeq(q) - MinSeq(q) - MaxSeq(q), den |-> U32Sub(cnt, 2)]

\* a trial whose request failed hands its error up: the round returns it and the
\* loop ends
testOutboudTrialPropagates(p, i) ==
  /\ loopPc[p] = "run" /\ i \in DOMAIN runner[p]
  /\ runner[p][i] = "trial"
  /\ \E o \in net :
       LET q == Append(scores[p][i], TrialScore(o)) IN
         /\ trials' = [trials EXCEPT ![p][i] = Append(trials[p][i], o)]
         /\ scores' = [scores EXCEPT ![p][i] = q]
         /\ loopPc' = [loopPc EXCEPT ![p] = IF o.err THEN "stopped" ELSE "run"]
         /\ IF Len(q) < count
              THEN UNCHANGED <<results, runner, wg>>
              ELSE /\ results' = [results EXCEPT ![p][i].score = Aggregate(q, count)]
                   /\ runner' = [runner EXCEPT ![p][i] = "done"]
                   /\ wg' = [wg EXCEPT ![p] = wg[p] - 1]
  /\ UNCHANGED <<probeVars, stratVars, callVars, rtags, loopHalf, histVars>>

\* a runner that returns after its last trial without telling the wait group
StoreScoreNoDone(p, i, o) ==
  LET q == Append(scores[p][i], TrialScore(o)) IN
    /\ trials' = [trials EXCEPT ![p][i] = Append(trials[p][i], o)]
    /\ scores' = [scores EXCEPT ![p][i] = q]
    /\ IF Len(q) < count
         THEN UNCHANGED <<results, runner, wg>>
         ELSE /\ results' = [results EXCEPT ![p][i].score = Aggregate(q, count)]
              /\ runner' = [runner EXCEPT ![p][i] = "done"]
              /\ UNCHANGED wg

\* a runner that puts its aggregate in the first slot of the results
StoreScoreFirstSlot(p, i, o) ==
  LET q == Append(scores[p][i], TrialScore(o)) IN
    /\ trials' = [trials EXCEPT ![p][i] = Append(trials[p][i], o)]
    /\ scores' = [scores EXCEPT ![p][i] = q]
    /\ IF Len(q) < count
         THEN UNCHANGED <<results, runner, wg>>
         ELSE /\ results' = [results EXCEPT ![p][1].score = Aggregate(q, count)]
              /\ runner' = [runner EXCEPT ![p][i] = "done"]
              /\ wg' = [wg EXCEPT ![p] = wg[p] - 1]

\* line 166-192: the score of the trial that met outcome o is put in scores[i];
\* after the last trial the scores are aggregated into result.score and the
\* deferred wg.Done runs
StoreScore(p, i, o) ==
  LET q == Append(scores[p][i], TrialScore(o)) IN
    /\ trials' = [trials EXCEPT ![p][i] = Append(trials[p][i], o)]
    /\ scores' = [scores EXCEPT ![p][i] = q]
    /\ IF Len(q) < count
         THEN UNCHANGED <<results, runner, wg>>
         ELSE /\ results' = [results EXCEPT ![p][i].score = Aggregate(q, count)]
              /\ runner' = [runner EXCEPT ![p][i] = "done"]
              /\ wg' = [wg EXCEPT ![p] = wg[p] - 1]

\* line 142-169: one trial, its score appended; after the last one line 171-192
\* aggregates into result.score and the deferred wg.Done runs
testOutboudTrial(p, i) ==
  /\ loopPc[p] = "run" /\ i \in DOMAIN runner[p]
  /\ runner[p][i] = "trial"
  /\ \E o \in net : StoreScore(p, i, o)
  /\ UNCHANGED <<probeVars, stratVars, callVars, loopPc, rtags, loopHalf, histVars>>

\* ------------------------------------------------------------ sort.Slice
\* the comparison with >= for >
LessOrEqual(x, y) == x.score.num * y.score.den >= y.score.num * x.score.den

\* line 121: results[i].score > results[j].score
Less(x, y) == x.score.num * y.score.den > y.score.num * x.score.den

Swap(d, i, j) == [d EXCEPT ![i] = d[j], ![j] = d[i]]

\* (each intermediate slice v is bound through a singleton set, which has it
\* computed once)
RECURSIVE ShellPass(_, _)
ShellPass(d, i) ==
  IF i > Len(d) THEN d
  ELSE CHOOSE r \in {ShellPass(v, i + 1) :
                      v \in {IF Less(d[i], d[i - 6]) THEN Swap(d, i, i - 6) ELSE d}} : TRUE

RECURSIVE Sink(_, _)
Sink(d, j) ==
  IF j > 1 /\ Less(d[j], d[j - 1])
    THEN CHOOSE r \in {Sink(v, j - 1) : v \in {Swap(d, j, j - 1)}} : TRUE
    ELSE d

RECURSIVE InsertionSort(_, _)
InsertionSort(d, i) ==
  IF i > Len(d) THEN d
  ELSE CHOOSE r \in {InsertionSort(v, i + 1) : v \in {Sink(d, i)}} : TRUE

\* sort.Slice on at most 12 elements before Go 1.19: a pass with gap 6, then
\* insertion sort
SortSlice(d) == IF Len(d) > 1 THEN InsertionSort(ShellPass(d, 7), 2) ELSE d

\* sort.Slice on at most 12 elements since Go 1.19: insertion sort
SortSlicePdq(d) == InsertionSort(d, 2)

\* what line 119 leaves in results, by the toolchain the program is built with
SortOutcomes(d) == {SortSlice(d), SortSlicePdq(d)}

\* the sort and what follows, not held back by wg.Wait()
runSortNoWait(p) ==
  /\ loopPc[p] = "run"
  /\ \E d \in SortOutcomes(results[p]) : results' = [results EXCEPT ![p] = d]
  /\ loopPc' = [loopPc EXCEPT ![p] = "l124"]
  \* the runners have returned, their locals are gone
  /\ scores' = [scores EXCEPT ![p] = << >>]
  /\ trials' = [trials EXCEPT ![p] = << >>]
  /\ UNCHANGED <<probeVars, stratVars, callVars, rtags, runner, wg, loopHalf, histVars>>

\* line 118-122: wg.Wait() returns, the results are sorted
runSort(p) ==
  /\ loopPc[p] = "run"
  /\ wg[p] = 0
  /\ \E d \in SortOutcomes(results[p]) : results' = [results EXCEPT ![p] = d]
  /\ loopPc' = [loopPc EXCEPT ![p] = "l124"]
  \* the runners have returned, their locals are gone
  /\ scores' = [scores EXCEPT ![p] = << >>]
  /\ trials' = [trials EXCEPT ![p] = << >>]
  /\ UNCHANGED <<probeVars, stratVars, callVars, rtags, runner, wg, loopHalf, histVars>>

\* results[0].tag as line 124 loads it
Winner(p) == IF Len(results[p]) > 0 THEN StrOf(results[p][1].tag) ELSE NilStr

\* line 124: s.tag = results[0].tag, the first of the two word stores
runPublish1(p) ==
  /\ loopPc[p] = "l124" /\ loopHalf[p] = "none"
  /\ \E w \in {"ptr", "len"} :
       /\ tag' = [tag EXCEPT ![w] = Winner(p)[w]]
       /\ loopHalf' = [loopHalf EXCEPT ![p] = w]
  /\ UNCHANGED <<probeVars, cfgVars, obm, tags, periodic, periodicMutex, callVars,
                 loopPc, rtags, results, runner, scores, trials, wg, histVars>>

\* a round that returns an error when no candidate scored above 0: the loop
\* ends
runPublish2FailsOnZero(p) ==
  /\ loopPc[p] = "l124" /\ loopHalf[p] # "none"
  /\ tag' = [tag EXCEPT ![Other(loopHalf[p])] = Winner(p)[Other(loopHalf[p])]]
  /\ loopHalf' = [loopHalf EXCEPT ![p] = "none"]
  /\ loopPc' = [loopPc EXCEPT ![p] =
                  IF \A j \in DOMAIN results[p] : results[p][j].score = Zero
                    THEN "stopped" ELSE PeriodicArmed]
  /\ rounds' = [rounds EXCEPT ![p] = rounds[p] + 1]
  /\ lastPub' = Winner(p)
  /\ rtags' = [rtags EXCEPT ![p] = << >>]
  /\ results' = [results EXCEPT ![p] = << >>]
  /\ runner' = [runner EXCEPT ![p] = << >>]
  /\ UNCHANGED <<probeVars, cfgVars, obm, tags, periodic, periodicMutex, callVars,
                 scores, trials, wg, calls, begun, created, launched, creatorTags>>

\* line 124-127: the other word store, the log line, return nil
runPublish2(p) ==
  /\ loopPc[p] = "l124" /\ loopHalf[p] # "none"
  /\ tag' = [tag EXCEPT ![Other(loopHalf[p])] = Winner(p)[Other(loopHalf[p])]]
  /\ loopHalf' = [loopHalf EXCEPT ![p] = "none"]
  /\ loopPc' = [loopPc EXCEPT ![p] = PeriodicArmed]
  /\ rounds' = [rounds EXCEPT ![p] = rounds[p] + 1]
  /\ lastPub' = Winner(p)
  \* the round's locals go out of scope
  /\ rtags' = [rtags EXCEPT ![p] = << >>]
  /\ results' = [results EXCEPT ![p] = << >>]
  /\ runner' = [runner EXCEPT ![p] = << >>]
  /\ UNCHANGED <<probeVars, cfgVars, obm, tags, periodic, periodicMutex, callVars,
                 scores, trials, wg, calls, begun, created, launched, creatorTags>>

testOutboud(p) ==
  \/ \E i \in DOMAIN runner[p] : testOutboudNoHandler(p, i)
  \/ \E i \in DOMAIN runner[p] : testOutboudHandler(p, i)
  \/ \E i \in DOMAIN runner[p] : testOutboudTrial(p, i)

run(p) ==
  \/ runBegin(p)
  \/ testOutboud(p)
  \/ runSort(p) \/ runPublish1(p) \/ runPublish2(p)

Next ==
  \/ \E c \in Callers : PickOutbound(c)
  \/ \E p \in Periodics : run(p)

Spec == Init /\ [][Next]_vars

\* ------------------------------------------------- one call, then the rounds
SevenTags == <<"a", "bb", "c", "d", "e", "f", "g">>

\* errors, and bodies of 1, 5 and 9 bytes after two seconds
NetScores == {Fail, Ok(Bytes(1), 2), Ok(Bytes(5), 2), Ok(Bytes(9), 2)}

\* an error, one byte after two seconds, one byte after one second
NetTimes == {Fail, Ok(Bytes(1), 2), Ok(Bytes(1), 1)}

\* bodies with and without line terminators: "", 4 bytes, "\n", "\r\n\r\n",
\* 3 bytes "\n" 2 bytes, and a line of 70000 bytes followed by one of 3 bytes;
\* bodies that stop arriving: at once, and after 3 bytes
NetBodies ==
  {Fail, Ok(<< >>, 1), Ok(Bytes(4), 1), Ok(<<Line(0, 0, 1)>>, 1),
   Ok(<<Line(0, 1, 1), Line(0, 1, 1)>>, 2),
   Ok(<<Line(3, 0, 1), Line(2, 0, 0)>>, 1),
   Ok(<<Line(70000, 0, 1), Line(3, 0, 0)>>, 2),
   Cut(<< >>, 2), Cut(Bytes(3), 2)}

\* an error, one byte after one second, and a response whose body has not
\* begun to arrive when the Timeout expires after two seconds
NetCut == {Fail, Ok(Bytes(1), 1), Cut(<< >>, 2)}

\* a configured trial count, the arguments of the first PickOutbound call, and
\* the network the probes meet
RoundConfigs ==
  {[count |-> 1, obm |-> "m3", tags |-> SevenTags, net |-> NetBasic],
   [count |-> 2, obm |-> "m1", tags |-> <<"a", "bb">>, net |-> NetTimes],
   [count |-> 0, obm |-> "m1", tags |-> <<"a", "bb">>, net |-> NetBasic],
   [count |-> 0, obm |-> "m2", tags |-> <<"bb", "a">>, net |-> NetScores],
   [count |-> 5, obm |-> "m2", tags |-> <<"bb", "a">>, net |-> NetScores],
   [count |-> 1, obm |-> "m2", tags |-> <<"bb", "a">>, net |-> NetBodies],
   [count |-> 3, obm |-> "m1", tags |-> <<"a", "bb">>, net |-> NetCut]}

\* what the first call, PickOutbound(m, l) with two or more tags, made by
\* caller c and run alone through line 72-95, leaves behind: the loop is
\* launched and has not begun a round
FirstCallDone(c, m, l) ==
  /\ obm = m
  /\ tag = StrOf(l[1])
  /\ tags = SliceOf(l)
  /\ periodic = 1
  /\ periodicMutex = "free"
  /\ pc = [d \in Callers |-> "idle"]
  /\ argObm = [d \in Callers |-> IF d = c THEN m ELSE NoObm]
  /\ argTags = [d \in Callers |-> IF d = c THEN l ELSE << >>]
  /\ half = [d \in Callers |-> "none"]
  /\ local = [d \in Callers |-> NilStr]
  /\ ret = [d \in Callers |-> IF d = c THEN Returned(StrOf(l[1])) ELSE NoRet]
  /\ loopPc = [p \in Periodics |-> IF p = 1 THEN "start" ELSE "off"]
  /\ rtags = [p \in Periodics |-> << >>]
  /\ results = [p \in Periodics |-> << >>]
  /\ runner = [p \in Periodics |-> << >>]
  /\ scores = [p \in Periodics |-> << >>]
  /\ trials = [p \in Periodics |-> << >>]
  /\ wg = [p \in Periodics |-> 0]
  /\ loopHalf = [p \in Periodics |-> "none"]
  /\ calls = 1
  /\ rounds = [p \in Periodics |-> 0]
  /\ begun = [p \in Periodics |-> 0]
  /\ created = 1
  /\ launched = 1
  /\ creatorTags = l
  /\ lastPub = StrOf(l[1])

\* The state in which caller c has made the first call, PickOutbound(m, l) with
\* two or more tags, on a strategy built with count cnt, and the call has run
\* line 72-95 alone.
AfterFirstCall(c, m, l, cnt, nt) ==
  /\ Constructed(Config(U32(0), U32(0), << >>, cnt)) /\ net = nt
  /\ NoProbes
  /\ FirstCallDone(c, m, l)

RoundInit ==
  \E k \in RoundConfigs : AfterFirstCall("g1", k.obm, k.tags, NewCount(k.count), k.net)

\* no further call is made: the loop and its runners are the only ones to act
RoundNext == \E p \in Periodics : run(p)

RoundSpec == RoundInit /\ [][RoundNext]_vars

\* The loop goroutine and the runners keep being scheduled, every probe comes
\* back (the http.Client has a Timeout) and the interval timer fires.
RoundFairSpec == RoundSpec /\ \A p \in Periodics : WF_vars(run(p))

\* ------------------------------------- one call, one round, then later calls
\* The state in which, after AfterFirstCall, the loop has run its first round
\* with no call in progress and has published w.
AfterFirstRound(c, m, l, cnt, nt, w) ==
  /\ Constructed(Config(U32(0), U32(0), << >>, cnt)) /\ net = nt
  /\ NoProbes
  /\ obm = m
  /\ tag = StrOf(w)
  /\ tags = SliceOf(l)
  /\ periodic = 1
  /\ periodicMutex = "free"
  /\ pc = [d \in Callers |-> "idle"]
  /\ argObm = [d \in Callers |-> IF d = c THEN m ELSE NoObm]
  /\ argTags = [d \in Callers |-> IF d = c THEN l ELSE << >>]
  /\ half = [d \in Callers |-> "none"]
  /\ local = [d \in Callers |-> NilStr]
  /\ ret = [d \in Callers |-> IF d = c THEN Returned(StrOf(l[1])) ELSE NoRet]
  /\ loopPc = [p \in Periodics |-> IF p = 1 THEN PeriodicArmed ELSE "off"]
  /\ rtags = [p \in Periodics |-> << >>]
  /\ results = [p \in Periodics |-> << >>]
  /\ runner = [p \in Periodics |-> << >>]
  /\ scores = [p \in Periodics |-> << >>]
  /\ trials = [p \in Periodics |-> << >>]
  /\ wg = [p \in Periodics |-> 0]
  /\ loopHalf = [p \in Periodics |-> "none"]
  /\ calls = 1
  /\ rounds = [p \in Periodics |-> IF p = 1 THEN 1 ELSE 0]
  /\ begun = [p \in Periodics |-> IF p = 1 THEN 1 ELSE 0]
  /\ created = 1
  /\ launched = 1
  /\ creatorTags = l
  /\ lastPub = StrOf(w)

\* first calls and the winner of a first round in which one candidate scored
\* above the other: "a" got a byte where "bb" has no handler, "bb" got a byte
\* where the request through "a" failed
ReaderConfigs ==
  {[obm |-> "m2", tags |-> <<"bb", "a">>, winner |-> "a"],
   [obm |-> "m1", tags |-> <<"a", "bb">>, winner |-> "bb"]}

ReaderInit ==
  \E k \in ReaderConfigs : \E c \in CfgCounts :
    AfterFirstRound("g1", k.obm, k.tags, NewCount(c), NetBasic, k.winner)

\* the steps of a call with two or more tags that finds the loop started
LaterCall(c) ==
  \/ PickOutboundEnter(c)
  \/ StoreObm(c) \/ StoreTags1(c) \/ StoreTags2(c)
  \/ CheckPeriodic(c) \/ Return(c)

ReaderNext ==
  \/ \E c \in Callers : LaterCall(c)
  \/ \E p \in Periodics : run(p)

ReaderSpec == ReaderInit /\ [][ReaderNext]_vars

\* ------------------------------- a second call while the loop is at work
\* The state in which caller c has made the first call, PickOutbound(m, l),
\* alone (as in FirstCallDone) and caller d has entered PickOutbound(m2, l2)
\* with two or more tags and is at line 79.
SecondCallEntered(c, m, l, d, m2, l2) ==
  /\ obm = m
  /\ tag = StrOf(l[1])
  /\ tags = SliceOf(l)
  /\ periodic = 1
  /\ periodicMutex = "free"
  /\ pc = [e \in Callers |-> IF e = d THEN "l79" ELSE "idle"]
  /\ argObm = [e \in Callers |-> IF e = c THEN m ELSE IF e = d THEN m2 ELSE NoObm]
  /\ argTags = [e \in Callers |-> IF e = c THEN l ELSE IF e = d THEN l2 ELSE << >>]
  /\ half = [e \in Callers |-> "none"]
  /\ local = [e \in Callers |-> NilStr]
  /\ ret = [e \in Callers |-> IF e = c THEN Returned(StrOf(l[1])) ELSE NoRet]
  /\ loopPc = [p \in Periodics |-> IF p = 1 THEN "start" ELSE "off"]
  /\ rtags = [p \in Periodics |-> << >>]
  /\ results = [p \in Periodics |-> << >>]
  /\ runner = [p \in Periodics |-> << >>]
  /\ scores = [p \in Periodics |-> << >>]
  /\ trials = [p \in Periodics |-> << >>]
  /\ wg = [p \in Periodics |-> 0]
  /\ loopHalf = [p \in Periodics |-> "none"]
  /\ calls = 2
  /\ rounds = [p \in Periodics |-> 0]
  /\ begun = [p \in Periodics |-> 0]
  /\ created = 1
  /\ launched = 1
  /\ creatorTags = l
  /\ lastPub = StrOf(l[1])

\* the arguments of the first call and of the second: a longer list, a shorter
\* list, another manager
SnapshotConfigs ==
  {[obm |-> "m1", tags |-> <<"a", "bb">>, obm2 |-> "m2", tags2 |-> <<"c", "a", "bb">>],
   [obm |-> "m1", tags |-> <<"c", "a", "bb">>, obm2 |-> "m1", tags2 |-> <<"bb", "a">>],
   [obm |-> "m1", tags |-> <<"a", "bb">>, obm2 |-> "m3", tags2 |-> <<"a", "bb">>]}

SnapshotInit ==
  \E k \in SnapshotConfigs : \E c \in CfgCounts :
    /\ Constructed(Config(U32(0), U32(0), << >>, c)) /\ net = NetBasic
    /\ NoProbes
    /\ SecondCallEntered("g1", k.obm, k.tags, "g2", k.obm2, k.tags2)

\* the second call goes through line 79-95 while the loop runs its rounds
SnapshotNext ==
  \/ \E c \in Callers : StoreObm(c) \/ StoreTags1(c) \/ StoreTags2(c)
                          \/ CheckPeriodic(c) \/ Return(c)
  \/ \E p \in Periodics : run(p)

SnapshotSpec == SnapshotInit /\ [][SnapshotNext]_vars

\* the steps of a call that has entered PickOutbound with two or more tags
Proceed(c) ==
  \/ StoreObm(c) \/ StoreTags1(c) \/ StoreTags2(c)
  \/ CheckPeriodic(c) \/ Lock(c) \/ Recheck(c)
  \/ StoreDefault1(c) \/ StoreDefault2(c)
  \/ NewPeriodic(c) \/ GoStart(c) \/ Unlock(c) \/ Return(c)

\* Every goroutine inside PickOutbound keeps being scheduled.  Nothing is
\* assumed of the background loop, its runners or the probes: a round may
\* stay in progress for ever.
CallersSpec == Spec /\ \A c \in Callers : WF_vars(Proceed(c))

\* ------------------------------------------------ one trial, step by step
\* the position of the last c in s at or before i, 0 when there is none
RECURSIVE LastIndex(_, _, _)
LastIndex(s, c, i) ==
  IF i = 0 \/ s[i] = c THEN i ELSE LastIndex(s, c, i - 1)

\* (*url.URL).Hostname and Port
Hostname(u) ==
  LET a == Authority(u.Rest)
      k == LastIndex(a, ":", Len(a))
  IN IF k = 0 THEN a ELSE SubSeq(a, 1, k - 1)

Port(u) ==
  LET a == Authority(u.Rest)
      k == LastIndex(a, ":", Len(a))
  IN IF k = 0 THEN << >> ELSE SubSeq(a, k + 1, Len(a))

\* the address http.Transport dials for a request to u (net/http
\* canonicalAddr): host:port, the port of the scheme when u names none
canonicalAddr(u) ==
  Hostname(u) \o <<":">> \o
    (IF Port(u) # << >> THEN Port(u)
     ELSE IF u.Scheme = Https THEN <<"4", "4", "3">> ELSE <<"8", "0">>)

Tcp == <<"t", "c", "p">>

\* line 199: fmt.Sprintf("%s:%s", network, addr)
DialDest(network, addr) == network \o <<":">> \o addr

DigitVal(c) ==
  CASE c = "0" -> 0 [] c = "1" -> 1 [] c = "3" -> 3 [] c = "4" -> 4 [] c = "8" -> 8

\* the number a string of digits writes, or some number above 65535 when it
\* is above 65535
RECURSIVE PortValue(_)
PortValue(s) ==
  IF s = << >> THEN 0
  ELSE CHOOSE x \in {IF v > 65535 THEN v ELSE 10 * v + DigitVal(s[Len(s)]) :
                       v \in {PortValue(SubSeq(s, 1, Len(s) - 1))}} : TRUE

\* net.ParseDestination returns an error: after the network prefix there is no
\* "host:port", or the port is not a number of 0..65535
ParseDestinationErr(dest) ==
  \E d \in {IF HasPrefix(dest, Tcp \o <<":">>) THEN SubSeq(dest, 5, Len(dest))
            ELSE dest} :
    \E k \in {LastIndex(d, ":", Len(d))} :
      \E pstr \in {SubSeq(d, k + 1, Len(d))} :
        \/ k = 0
        \/ \E j \in DOMAIN pstr : pstr[j] \notin Digits
        \/ PortValue(pstr) > 65535

\* line 220: the client's Timeout, in ticks of the clock (a tick is a second)
Ticks(d) ==
  CHOOSE t \in {WordInt(s) : s \in {DivRem(ms, 1000).q :
                                     ms \in {DivRem(d, 1000000).q}}} : TRUE

\* the host that answers every request with a redirect to host "x"
Redirects(u) == Hostname(u) = <<"y">>

\* A runner's trial: where client.Do or the reading of the body is ("idle"
\* between trials), the time since line 146, the dials made for it, and for the
\* round the trials started and the time spent in them.
IdleProbe == [phase |-> "idle", elapsed |-> 0, dials |-> 0, started |-> 0, spent |-> 0]

\* line 204-213: the connection made by the n-th dial of trial k of runner i in
\* round r: its two pipes, the Dispatch goroutine, and the time left until the
\* timer of the request it was dialled for goes off (-1: no timer)
Conn(p, r, i, k, n, left) ==
  [p |-> p, r |-> r, i |-> i, k |-> k, n |-> n,
   up |-> "open", down |-> "open", task |-> "running", left |-> left]

\* the connection the trial of runner i is using
IsCur(c, p, i) ==
  /\ c.p = p /\ c.r = begun[p] /\ c.i = i
  /\ c.k = doing[p][i].started /\ c.n = doing[p][i].dials

\* net.Conn Close on the connection of line 213: the uplink writer is closed
\* and the downlink reader interrupted
Close(c) == [c EXCEPT !.up = "closed", !.down = "closed", !.left = -1]

\* nothing is left of a connection: its pipes are closed and Dispatch has returned
Dead(c) == c.up = "closed" /\ c.down = "closed" /\ c.task = "ended"
Live(S) == {c \in S : ~Dead(c)}

Probing(p, i) ==
  /\ loopPc[p] = "run" /\ i \in DOMAIN runner[p]
  /\ runner[p][i] = "trial"

\* the runner's record once its trial has ended with q scores stored
Ended(d, q) ==
  IF q < count
    THEN [d EXCEPT !.phase = "idle", !.elapsed = 0, !.dials = 0]
    ELSE IdleProbe

\* a dial that makes the pipes and starts Dispatch before it parses its address
testOutboudDialErrorAfterPipes(p, i) ==
  /\ Probing(p, i) /\ doing[p][i].phase = "idle"
  /\ ParseDestinationErr(DialDest(Tcp, canonicalAddr(url)))
  /\ StoreScore(p, i, Fail)
  /\ doing' = [doing EXCEPT ![p][i] =
                 Ended([@ EXCEPT !.started = @ + 1], Len(scores[p][i]) + 1)]
  /\ conns' = conns \cup
       {Conn(p, begun[p], i, doing[p][i].started + 1, 1, -1)}
  /\ UNCHANGED <<stratVars, callVars, loopPc, rtags, loopHalf, histVars>>

\* line 143-151, 198-202: the dial cannot parse its address: DialContext returns
\* the error, client.Do returns it, the trial scores 0
testOutboudDialError(p, i) ==
  /\ Probing(p, i) /\ doing[p][i].phase = "idle"
  /\ ParseDestinationErr(DialDest(Tcp, canonicalAddr(url)))
  /\ StoreScore(p, i, Fail)
  /\ doing' = [doing EXCEPT ![p][i] =
                 Ended([@ EXCEPT !.started = @ + 1], Len(scores[p][i]) + 1)]
  /\ UNCHANGED <<conns, stratVars, callVars, loopPc, rtags, loopHalf, histVars>>

\* a runner that starts its next trial without waiting for the one in progress
testOutboudDialAhead(p, i) ==
  /\ Probing(p, i) /\ doing[p][i].phase \in {"idle", "sent"}
  /\ doing[p][i].started < count
  /\ ~ParseDestinationErr(DialDest(Tcp, canonicalAddr(url)))
  /\ doing' = [doing EXCEPT ![p][i] =
                 [@ EXCEPT !.phase = "sent", !.elapsed = 0, !.dials = 1,
                           !.started = @ + 1]]
  /\ conns' = conns \cup
       {Conn(p, begun[p], i, doing[p][i].started + 1, 1, Ticks(timeout))}
  /\ UNCHANGED <<stratVars, callVars, loopVars, histVars>>

\* line 143-147, 198-213: the client is built, the request made, startAt taken;
\* client.Do dials: two pipes are made, Dispatch is started on its own goroutine
\* and the connection returned; the request is written to it
testOutboudDial(p, i) ==
  /\ Probing(p, i) /\ doing[p][i].phase = "idle"
  /\ ~ParseDestinationErr(DialDest(Tcp, canonicalAddr(url)))
  /\ doing' = [doing EXCEPT ![p][i] =
                 [@ EXCEPT !.phase = "sent", !.elapsed = 0, !.dials = 1,
                           !.started = @ + 1]]
  /\ conns' = conns \cup
       {Conn(p, begun[p], i, doing[p][i].started + 1, 1, Ticks(timeout))}
  /\ UNCHANGED <<stratVars, callVars, loopVars, histVars>>

\* line 147: the answer is a redirect: client.Do closes the answer's body, and
\* with it the connection (keep-alives are off), and sends the request to the
\* new address over a connection it dials for it; the Timeout runs on
testOutboudRedirect(p, i) ==
  /\ Probing(p, i) /\ doing[p][i].phase = "sent"
  /\ Redirects(url) /\ doing[p][i].dials = 1
  /\ \E c \in conns : IsCur(c, p, i)
  /\ doing' = [doing EXCEPT ![p][i].dials = @ + 1]
  /\ conns' = Live({IF IsCur(c, p, i) THEN Close(c) ELSE c : c \in conns}) \cup
       {Conn(p, begun[p], i, doing[p][i].started, 2,
             Ticks(timeout) - doing[p][i].elapsed)}
  /\ UNCHANGED <<stratVars, callVars, loopVars, histVars>>

\* line 147: client.Do returns the response, its header read
testOutboudResponse(p, i) ==
  /\ Probing(p, i) /\ doing[p][i].phase = "sent"
  /\ doing[p][i].elapsed >= 1
  /\ ~(Redirects(url) /\ doing[p][i].dials = 1)
  /\ \E c \in conns : IsCur(c, p, i) /\ c.down = "open"
  /\ \E o \in net : ~o.err
  /\ doing' = [doing EXCEPT ![p][i].phase = "body"]
  /\ UNCHANGED <<conns, stratVars, callVars, loopVars, histVars>>

\* line 147-151: client.Do returns an error before the Timeout: the connection
\* broke or Dispatch ended without an answer; the connection is closed
testOutboudDoError(p, i) ==
  /\ Probing(p, i) /\ doing[p][i].phase = "sent"
  /\ Fail \in net
  /\ StoreScore(p, i, Fail)
  /\ doing' = [doing EXCEPT ![p][i] = Ended(@, Len(scores[p][i]) + 1)]
  /\ conns' = Live({IF IsCur(c, p, i) THEN Close(c) ELSE c : c \in conns})
  /\ UNCHANGED <<stratVars, callVars, loopPc, rtags, loopHalf, histVars>>

\* line 153-166: the scan loop ends before the Timeout, on the end of the body
\* or on a line that does not fit; finishAt is taken. At the end of the body
\* the transport closes the connection; a body left unread stays open, nobody
\* closes resp.Body, until the timer of the request goes off.
testOutboudBodyEnd(p, i) ==
  /\ Probing(p, i) /\ doing[p][i].phase = "body"
  /\ \E o \in net :
       /\ ~o.err /\ ~o.cut
       /\ StoreScore(p, i, [o EXCEPT !.secs = doing[p][i].elapsed])
       /\ conns' = Live({IF IsCur(c, p, i) /\ \A k \in DOMAIN o.body : Fits(o.body[k])
                           THEN Close(c) ELSE c : c \in conns})
  /\ doing' = [doing EXCEPT ![p][i] = Ended(@, Len(scores[p][i]) + 1)]
  /\ UNCHANGED <<stratVars, callVars, loopPc, rtags, loopHalf, histVars>>

\* a Timeout that covers client.Do only, not the reading of the body
TimerDueUntilResponse(p, i) ==
  /\ i \in DOMAIN doing[p] /\ doing[p][i].phase = "sent"
  /\ doing[p][i].elapsed >= Ticks(timeout)

\* line 220: the timer of the request in progress is due; it runs from the
\* start of client.Do until the body has been read
TimerDue(p, i) ==
  /\ i \in DOMAIN doing[p] /\ doing[p][i].phase \in {"sent", "body"}
  /\ doing[p][i].elapsed >= Ticks(timeout)

\* line 220: the Timeout expires. Waiting for the response, client.Do returns
\* an error (score 0); reading the body, the read fails and the scan loop ends
\* (line 155), the trial is scored on what had been read. The transport closes
\* the connection, except that a TLS handshake in progress is not interrupted
\* by toolchains before Go 1.17: the Transport has no TLSHandshakeTimeout and
\* the connection of line 213 ignores deadlines.
testOutboudTimeout(p, i) ==
  /\ Probing(p, i) /\ TimerDue(p, i)
  /\ StoreScore(p, i, IF doing[p][i].phase = "sent" THEN Fail
                      ELSE Cut(<< >>, doing[p][i].elapsed))
  /\ doing' = [doing EXCEPT ![p][i] = Ended(@, Len(scores[p][i]) + 1)]
  /\ \/ conns' = Live({IF IsCur(c, p, i) THEN Close(c) ELSE c : c \in conns})
     \/ /\ doing[p][i].phase = "sent" /\ url.Scheme = Https
        /\ conns' = {IF IsCur(c, p, i) THEN [c EXCEPT !.left = -1] ELSE c : c \in conns}
  /\ UNCHANGED <<stratVars, callVars, loopPc, rtags, loopHalf, histVars>>

\* a runner that waits for the network
Waiting(p, i) == i \in DOMAIN doing[p] /\ doing[p][i].phase \in {"sent", "body"}

\* a runner that has a step to take that waits for nothing
Busy(p, i) ==
  /\ loopPc[p] = "run" /\ i \in DOMAIN runner[p]
  /\ \/ runner[p][i] = "go"
     \/ runner[p][i] = "trial" /\ doing[p][i].phase = "idle"

\* a second passes: no runner has a step to take at once, no timer is due and
\* no Dispatch is about to return
Tick ==
  /\ \/ \E p \in Periodics : \E i \in DOMAIN doing[p] : Waiting(p, i)
     \/ \E c \in conns : c.left > 0
  /\ \A p \in Periodics : \A i \in DOMAIN doing[p] :
       /\ ~Busy(p, i)
       /\ ~TimerDue(p, i)
  /\ \A c \in conns :
       /\ c.up = "open"
       /\ c.left = 0 => IsCur(c, c.p, c.i) /\ Waiting(c.p, c.i)
  /\ doing' = [p \in Periodics |-> [i \in DOMAIN doing[p] |->
                 IF Waiting(p, i)
                   THEN [doing[p][i] EXCEPT !.elapsed = @ + 1, !.spent = @ + 1]
                   ELSE doing[p][i]]]
  /\ conns' = {IF c.left > 0 THEN [c EXCEPT !.left = @ - 1] ELSE c : c \in conns}
  /\ UNCHANGED <<stratVars, callVars, loopVars, histVars>>

\* the timer of a request whose trial is over goes off: the request is
\* cancelled and the transport closes its connection
ConnTimer(c) ==
  /\ c \in conns /\ c.left = 0
  /\ ~(IsCur(c, c.p, c.i) /\ Waiting(c.p, c.i))
  /\ conns' = Live((conns \ {c}) \cup {Close(c)})
  /\ UNCHANGED <<doing, stratVars, callVars, loopVars, histVars>>

\* the handler's Dispatch returns because both pipes are closed
DispatchReturns(c) ==
  /\ c \in conns /\ c.task = "running"
  /\ c.up = "closed" /\ c.down = "closed"
  /\ conns' = conns \ {c}
  /\ UNCHANGED <<doing, stratVars, callVars, loopVars, histVars>>

\* the handler's Dispatch returns of its own accord and closes its ends of the
\* pipes
DispatchGivesUp(c) ==
  /\ c \in conns /\ c.task = "running"
  /\ c.up = "open" /\ c.down = "open"
  /\ conns' = conns \ {c}
  /\ UNCHANGED <<doing, stratVars, callVars, loopVars, histVars>>

\* line 131-193 with the trial taken step by step
testOutboudSteps(p) ==
  \/ \E i \in DOMAIN runner[p] : testOutboudNoHandler(p, i)
  \/ \E i \in DOMAIN runner[p] : testOutboudHandler(p, i)
  \/ \E i \in DOMAIN runner[p] : testOutboudDialError(p, i)
  \/ \E i \in DOMAIN runner[p] : testOutboudDial(p, i)
  \/ \E i \in DOMAIN runner[p] : testOutboudRedirect(p, i)
  \/ \E i \in DOMAIN runner[p] : testOutboudResponse(p, i)
  \/ \E i \in DOMAIN runner[p] : testOutboudDoError(p, i)
  \/ \E i \in DOMAIN runner[p] : testOutboudBodyEnd(p, i)
  \/ \E i \in DOMAIN runner[p] : testOutboudTimeout(p, i)

runSteps(p) ==
  \/ runBegin(p)
  \/ testOutboudSteps(p)
  \/ runSort(p) \/ runPublish1(p) \/ runPublish2(p)

\* a plain URL, an https URL, a URL whose host redirects, a URL whose port no
\* dial can parse
ProbeUrls ==
  <<Http \o <<":">> \o Slashes \o <<"x">>,
    Https \o <<":">> \o Slashes \o <<"x">>,
    Http \o <<":">> \o Slashes \o <<"y">>,
    Http \o <<":">> \o Slashes \o <<"x", ":", "1", "1", "1", "1", "1", "1">>>>

\* a body of one byte, and a body whose first line is too long for the scanner
ProbeNet == {Fail, Ok(Bytes(1), 1), Ok(<<Line(70000, 0, 1), Line(3, 0, 0)>>, 1)}

\* a URL, a Timeout in milliseconds, a trial count, the arguments of the first
\* PickOutbound call and the network the probes meet
ProbeConfigs ==
  {[url |-> ProbeUrls[1], ms |-> 2000, count |-> 2, obm |-> "m2",
    tags |-> <<"bb", "a">>, net |-> ProbeNet],
   [url |-> ProbeUrls[2], ms |-> 2000, count |-> 2, obm |-> "m2",
    tags |-> <<"bb", "a">>, net |-> {Fail, Ok(Bytes(1), 1)}],
   [url |-> ProbeUrls[3], ms |-> 2000, count |-> 1, obm |-> "m2",
    tags |-> <<"bb", "a">>, net |-> {Ok(Bytes(1), 1)}],
   [url |-> ProbeUrls[4], ms |-> 2000, count |-> 2, obm |-> "m2",
    tags |-> <<"bb", "a">>, net |-> ProbeNet],
   [url |-> ProbeUrls[1], ms |-> 1000, count |-> 2, obm |-> "m1",
    tags |-> <<"a", "bb">>, net |-> {Ok(Bytes(1), 1)}]}

\* the first call has been made, as in AfterFirstCall, on a strategy built for
\* one of the configurations above; no trial has begun
ProbeInit ==
  \E k \in ProbeConfigs :
    /\ Constructed(Config(U32(k.ms), U32(0), k.url, k.count))
    /\ net = k.net
    /\ doing = [p \in Periodics |-> [i \in DOMAIN k.tags |-> IdleProbe]]
    /\ conns = {}
    /\ FirstCallDone("g1", k.obm, k.tags)

ProbeNext ==
  \/ \E p \in Periodics : runSteps(p)
  \/ Tick
  \/ \E c \in conns : ConnTimer(c)
  \/ \E c \in conns : DispatchReturns(c)
  \/ \E c \in conns : DispatchGivesUp(c)

ProbeSpec == ProbeInit /\ [][ProbeNext]_vars

\* ------------------------------------------------- building the strategy
MaxUint32 == <<255, 255, 255, 255>>

CfgTimeouts  == {U32(0), U32(1), U32(1500), MaxUint32}
CfgIntervals == {U32(0), U32(250), U32(600000), MaxUint32}

CfgUrls ==
  {<< >>,
   Http \o <<":">> \o Slashes \o <<"x">>,
   Https \o <<":">> \o Slashes \o <<"x", "/", "y">>,
   Https \o <<":">> \o Slashes \o <<"x", ":", "1", "1">>,
   <<"H", "T", "T", "P">> \o <<":">> \o Slashes \o <<"x">>,
   Http \o <<":", "x">>,
   Https \o <<":">>,
   <<"f", "t", "p">> \o <<":">> \o Slashes \o <<"x">>,
   Http \o <<"x", ":">> \o Slashes \o <<"x">>,
   <<"w", "s", "+">> \o Http \o <<":">> \o Slashes \o <<"x">>,
   <<"x">>,
   Slashes \o <<"x">>,
   <<"x", "/">> \o Http \o <<":">> \o Slashes \o <<"y">>,
   <<":", "x">>,
   <<"1">> \o Http \o <<":">> \o Slashes \o <<"x">>,
   Http \o <<":">> \o Slashes \o <<"x", " ", "y">>,
   Http \o <<":">> \o Slashes \o <<"x", ":", "p">>,
   Http \o <<":">> \o Slashes \o <<"x", "\n">>}

CfgAllCounts == {0, 1, 2, 3, 7}

Configs ==
  {Config(t, i, u, c) : t \in CfgTimeouts, i \in CfgIntervals,
                        u \in CfgUrls, c \in CfgAllCounts}

\* line 39: s := &OptimalStrategy{}, before any of its fields is set
ConfigInit ==
  /\ config \in Configs /\ built = "no"
  /\ timeout = I64(0) /\ interval = I64(0) /\ url = NilUrl /\ count = 0
  /\ net = NetBasic
  /\ NoProbes
  /\ Unused

\* line 38-69: the fields are set in the order of the source; a panic of line
\* 56 or 59 leaves the function before count is set and no strategy is returned
NewOptimalStrategy ==
  /\ built = "no"
  /\ timeout' = NewTimeout(config.Timeout)
  /\ interval' = NewInterval(config.Interval)
  /\ url' = NewUrl(config.Url).url
  /\ IF NewUrl(config.Url).panic
       THEN built' = "panic" /\ count' = count
       ELSE built' = "yes" /\ count' = NewCount(config.Count)
  /\ UNCHANGED <<config, net, obm, tag, tags, periodic, periodicMutex,
                 callVars, loopVars, histVars, probeVars>>

ConfigNext == NewOptimalStrategy

ConfigSpec == ConfigInit /\ [][ConfigNext]_vars

\* The goroutines of a round keep being scheduled, time passes, a timer that
\* is due fires, and a Dispatch whose pipes are both closed returns.  Nothing
\* is assumed of a Dispatch whose pipes are open: the handler may serve its
\* upstream for ever.
ProbeFairSpec ==
  /\ ProbeSpec
  /\ WF_vars(\E p \in Periodics : runSteps(p))
  /\ WF_vars(Tick)
  /\ WF_vars(\E c \in conns : ConnTimer(c))
  /\ WF_vars(\E c \in conns : DispatchReturns(c))

\* ------------------------------------------------------------- properties
InRound(p) == loopPc[p] \in {"run", "l124"}

\* the caller's latest call passed n tags and has returned a string
ReturnedFrom(c, n) ==
  pc[c] = "idle" /\ ret[c].kind = "tag" /\ Len(argTags[c]) = n
ReturnedFromMany(c) ==
  pc[c] = "idle" /\ ret[c].kind = "tag" /\ Len(argTags[c]) >= 2

\* the shared state of the strategy and of its background work
sharedVars == <<obm, tag, tags, periodic, periodicMutex, loopVars, created, launched>>

\* C1: whatever the interleaving of PickOutbound calls with two or more tags,
\* at most one task.Periodic is ever created and at most one loop launched; once
\* such a call has returned exactly one task.Periodic exists, and its loop is
\* launched by the time the call that created it has left line 90.
C1_StartedExactlyOnce ==
  /\ created <= 1 /\ launched <= 1
  /\ Cardinality({p \in Periodics : loopPc[p] # "off"}) <= 1
  /\ (\E c \in Callers : ReturnedFromMany(c)) => created = 1
  /\ (created = 1 /\ \A c \in Callers : pc[c] # "l90") => launched = 1

\* C1 witness: a caller that saw s.periodic == nil at line 82 holds the mutex
\* at line 84 after another caller has created the scheduler.
C1_Witness ==
  \E c \in Callers : pc[c] = "l84" /\ periodic # 0 /\ created = 1 /\ launched = 1
    /\ \E d \in Callers \ {c} : ReturnedFromMany(d)

\* C2 (as claimed): from the creation of the scheduler until the first round
\* publishes, the published tag is the first tag of the list passed by the
\* call that created the scheduler.
C2_DefaultIsCreatorsFirst ==
  (created = 1 /\ \A p \in Periodics : rounds[p] = 0 /\ loopHalf[p] = "none")
    => tag = TagsAt0(SliceOf(creatorTags))

\* C3 (as claimed): a call that returned a string returned a non-empty tag
\* that is a member of the list it passed.
C3_ReturnsMember ==
  \A c \in Callers :
    (pc[c] = "idle" /\ ret[c].kind = "tag")
      => \E i \in 1..Len(argTags[c]) : ret[c].val = StrOf(argTags[c][i])

\* C4 (as claimed): a call with exactly one tag returns that tag.
C4_SingleReturnsIt ==
  \A c \in Callers : ReturnedFrom(c, 1) => ret[c].val = StrOf(argTags[c][1])

\* a step in which a call that passed n tags came back at once
ImmediateCall(c, n, kind) ==
  /\ calls' = calls + 1 /\ pc' = pc
  /\ Len(argTags'[c]) = n /\ ret'[c].kind = kind
  /\ \A d \in Callers \ {c} :
       argTags'[d] = argTags[d] /\ argObm'[d] = argObm[d] /\ ret'[d] = ret[d]

\* C5: a PickOutbound call with exactly one tag leaves the scheduler reference,
\* the stored list, the stored manager, the published tag, the mutex and all
\* background work as they were.
C5_SingleChangesNothing ==
  [][\A c \in Callers : ImmediateCall(c, 1, "tag") => UNCHANGED sharedVars]_vars

\* C5 witness: a one-tag call has returned while another call had already
\* stored its list and the scheduler was not yet created.
C5_Witness ==
  \E c \in Callers : ReturnedFrom(c, 1) /\ tags # NilSlice /\ periodic = 0

\* C6: a PickOutbound call with no tag panics, returns no string, goes no
\* further into the function and leaves all shared state as it was.
C6_EmptyPanicsFirst ==
  /\ [](\A c \in Callers :
          (Len(argTags[c]) = 0 /\ ret[c] # NoRet)
            => (ret[c] = Panicked /\ pc[c] = "idle"))
  /\ [][\A c \in Callers : ImmediateCall(c, 0, "panic") => UNCHANGED sharedVars]_vars

\* C6 witness: a call with no tag has panicked after the scheduler was started.
C6_Witness ==
  \E c \in Callers : ret[c] = Panicked /\ Len(argTags[c]) = 0 /\ launched = 1

\* C7: a call that has entered PickOutbound returns, whatever the background
\* loop does or fails to do: no step of the call waits for a round or a probe.
C7_CallReturns ==
  \A c \in Callers : (pc[c] # "idle") ~> (pc[c] = "idle" /\ ret[c].kind = "tag")

\* C7 witness: a call has returned while a round that has scored nothing yet
\* is in progress.
C7_Witness ==
  \E c \in Callers : \E p \in Periodics :
    /\ ReturnedFromMany(c) /\ loopPc[p] = "run" /\ wg[p] = Len(rtags[p])
    /\ rounds[p] = 0

\* C8 (as claimed): a call with two or more tags returns the value of the last
\* completed publication (the startup default or a round's winner), a whole
\* string.
C8_ReaderSeesPublished ==
  [][\A c \in Callers :
       (pc[c] = "l95" /\ pc'[c] = "idle")
         => (ret'[c].val = lastPub /\ Whole(ret'[c].val))]_vars

C10_AccessesGuarded ==
  /\ \A p \in Periodics : loopPc[p] = "l124" =>
       /\ \A c \in Callers : pc[c] \notin {"l85", "l95"}
       /\ \A q \in Periodics \ {p} : loopPc[q] # "l124"
  /\ \A w \in Callers : \A g \in Callers \ {w} :
       /\ pc[w] = "l85" => pc[g] \notin {"l85", "l95"}
       /\ pc[w] = "l86" => pc[g] \notin {"l82", "l84", "l86"}


\* In Spec, a first call that ran alone leaves the state AfterFirstCall gives.
FirstCallAlone ==
  (/\ calls = 1 /\ launched = 1
   /\ \A p \in Periodics : begun[p] = 0
   /\ \A c \in Callers : pc[c] = "idle")
  => \E c \in Callers : AfterFirstCall(c, argObm[c], argTags[c], count, net)

\* In Spec, a first call that returned its default and a first round that ran
\* after it leave the state AfterFirstRound gives.
FirstRoundAlone ==
  (/\ calls = 1 /\ rounds[1] = 1 /\ loopPc[1] = PeriodicArmed
   /\ \A c \in Callers : pc[c] = "idle"
   /\ \A c \in Callers : ret[c].kind = "tag" => ret[c].val = StrOf(argTags[c][1]))
  => \E c \in Callers : \E w \in Tags :
       AfterFirstRound(c, argObm[c], argTags[c], count, net, w)

\* a runner that has returned: it found no handler and ran no trial, or it ran
\* s.count trials and stored their aggregate
Finished(p, i) ==
  /\ runner[p][i] = "done"
  /\ Len(scores[p][i]) \in {0, count}

\* C11: a round has one runner per tag of its snapshot, each working on the
\* slot of its tag, and the wait group counts the runners still at work; the
\* round is past wg.Wait(), which is where the winner is published, only when
\* every one of its runners has finished.
C11_PublishAfterAllScored ==
  \A p \in Periodics :
    /\ InRound(p) =>
          /\ DOMAIN runner[p] = DOMAIN rtags[p]
          /\ DOMAIN results[p] = DOMAIN rtags[p]
          /\ wg[p] = Cardinality({i \in DOMAIN runner[p] : runner[p][i] # "done"})
    /\ loopPc[p] = "run" => \A i \in DOMAIN rtags[p] : results[p][i].tag = rtags[p][i]
    /\ loopPc[p] = "run" /\ wg[p] = 0 => \A i \in DOMAIN rtags[p] : Finished(p, i)
    /\ loopPc[p] = "l124" => \A i \in DOMAIN rtags[p] : runner[p][i] = "done"
    /\ ~InRound(p) => loopHalf[p] = "none"

\* a round of two candidates is storing its winner, one of them scored above 0
C11_Witness ==
  \E p \in Periodics :
    /\ loopPc[p] = "l124" /\ loopHalf[p] # "none"
    /\ Len(rtags[p]) = 2
    /\ \E i \in DOMAIN results[p] : results[p][i].score.num > 0

\* where the tag t stands in the round's candidate list
Pos(p, t) == CHOOSE i \in DOMAIN rtags[p] : rtags[p][i] = t

SameScore(x, y) == ~Less(x, y) /\ ~Less(y, x)

\* C12: once a round has sorted its results they are in descending order of
\* score, and of two candidates with equal scores the one that stands first in
\* the round's candidate list is ranked first; so the tag about to be
\* published is the earliest in the list among those with the highest score.
C12_RankingIsStable ==
  \A p \in Periodics :
    loopPc[p] = "l124" =>
      \A i, j \in DOMAIN results[p] :
        i < j =>
          /\ ~Less(results[p][j], results[p][i])
          /\ SameScore(results[p][i], results[p][j])
                => Pos(p, results[p][i].tag) < Pos(p, results[p][j].tag)

\* the step on which round p completes: the second word store of line 124
Completes(p) == rounds'[p] = rounds[p] + 1

\* C13: when a round completes, the tag it has published is that of a
\* candidate no other candidate of the round scored above; and a call with two
\* or more tags made after a round in which one candidate scored strictly
\* highest returns that candidate as long as the next round has not completed.
C13_WinnerIsReturned ==
  [][/\ \A p \in Periodics :
          Completes(p) =>
            \E i \in DOMAIN results[p] :
              /\ tag' = StrOf(results[p][i].tag)
              /\ \A j \in DOMAIN results[p] : ~Less(results[p][j], results[p][i])
     /\ \A c \in Callers :
          (pc[c] = "l95" /\ pc'[c] = "idle" /\ rounds[1] = 1)
            => ret'[c] = Returned(lastPub)]_vars

\* the sum of the scores q at the indices S
RECURSIVE SumOver(_, _)
SumOver(q, S) ==
  IF S = {} THEN 0
  ELSE LET k == CHOOSE x \in S : TRUE IN q[k] + SumOver(q, S \ {k})

\* the fraction x is n / d
IsScore(x, n, d) == x.den > 0 /\ d > 0 /\ x.num * d = n * x.den

\* runner i of round p has returned after trials, whose scores are at hand
Scored(p, i) ==
  loopPc[p] = "run" /\ runner[p][i] = "done" /\ scores[p][i] # << >>

\* C14: with three or more trials, the score a runner stores is the sum of
\* its trial scores without one occurrence of a least one and one occurrence
\* of a greatest one, over the number of trials less two; 1,5,9 gives 5 and
\* 1,1,5,9,9 gives 5.
C14_TrimmedMean ==
  \A p \in Periodics : \A i \in DOMAIN runner[p] :
    (Scored(p, i) /\ count >= 3) =>
      LET q == scores[p][i]
          x == results[p][i].score
      IN /\ Len(q) = count
         /\ \E lo, hi \in DOMAIN q :
              /\ lo # hi
              /\ \A k \in DOMAIN q : q[lo] <= q[k] /\ q[k] <= q[hi]
              /\ IsScore(x, SumOver(q, DOMAIN q \ {lo, hi}), Len(q) - 2)
         /\ q = <<1, 5, 9>> => IsScore(x, 5, 1)
         /\ q = <<1, 1, 5, 9, 9>> => IsScore(x, 5, 1)

\* a runner has stored the score of the trials 1,1,5,9,9
C14_Witness ==
  \E p \in Periodics : \E i \in DOMAIN runner[p] :
    Scored(p, i) /\ scores[p][i] = <<1, 1, 5, 9, 9>>

\* C15: with one or two trials, the score a runner stores is the sum of all
\* its trial scores over their number; 2,2 gives 2.
C15_PlainMean ==
  \A p \in Periodics : \A i \in DOMAIN runner[p] :
    (Scored(p, i) /\ count \in {1, 2}) =>
      LET q == scores[p][i]
          x == results[p][i].score
      IN /\ Len(q) = count
         /\ IsScore(x, SumOver(q, DOMAIN q), Len(q))
         /\ q = <<2, 2>> => IsScore(x, 2, 1)

\* a runner has stored the score of the trials 2,2
C15_Witness ==
  \E p \in Periodics : \E i \in DOMAIN runner[p] :
    Scored(p, i) /\ scores[p][i] = <<2, 2>>

\* every runner of round p has returned and no trial of the round got a response
AllFailed(p) ==
  /\ loopPc[p] = "run" /\ wg[p] = 0
  /\ \A i \in DOMAIN trials[p] : \A k \in DOMAIN trials[p][i] : trials[p][i][k].err

\* C16: a round in which no trial got a response goes on to completion: it
\* stores the first tag of its candidate list as the published tag and returns
\* nil, so that the loop waits for its next round.
C16_AllFailedPublishesFirst ==
  /\ [][\A p \in Periodics :
          (Completes(p) /\ \A j \in DOMAIN results[p] : results[p][j].score = Zero)
            => /\ tag' = StrOf(rtags[p][1])
               /\ loopPc'[p] = PeriodicArmed]_vars
  /\ \A p \in Periodics :
       AllFailed(p) ~> (loopPc[p] = PeriodicArmed /\ lastPub = StrOf(creatorTags[1]))

\* a round of seven candidates, all of whose trials failed, is storing its winner
C16_Witness ==
  \E p \in Periodics :
    /\ loopPc[p] = "l124" /\ loopHalf[p] # "none"
    /\ Len(results[p]) = Len(SevenTags)
    /\ \A j \in DOMAIN results[p] : results[p][j].score = Zero

\* the fraction x is what line 186-190 make of the trial scores q
AggregateOf(x, q) ==
  IF Len(q) < 3
    THEN IsScore(x, SumOver(q, DOMAIN q), Len(q))
    ELSE \E lo, hi \in DOMAIN q :
           /\ lo # hi
           /\ \A k \in DOMAIN q : q[lo] <= q[k] /\ q[k] <= q[hi]
           /\ IsScore(x, SumOver(q, DOMAIN q \ {lo, hi}), Len(q) - 2)

\* C17: a candidate whose tag the outbound manager has no handler for runs no
\* trial and its slot keeps score 0 under its tag; the other candidates run
\* all their trials and store the aggregate of their own scores; the sorted
\* ranking holds every candidate of the round, and the round goes on to
\* completion.  (The manager is the same throughout: no call is in progress.)
C17_NoHandlerScoresZero ==
  /\ [](\A p \in Periodics :
         /\ loopPc[p] = "run" =>
              \A i \in DOMAIN runner[p] :
                runner[p][i] = "done" =>
                  IF HasHandler(obm, rtags[p][i])
                    THEN /\ Len(trials[p][i]) = count
                         /\ AggregateOf(results[p][i].score, scores[p][i])
                    ELSE /\ trials[p][i] = << >>
                         /\ results[p][i] = [tag |-> rtags[p][i], score |-> Zero]
         /\ loopPc[p] = "l124" =>
              /\ Len(results[p]) = Len(rtags[p])
              /\ \A i \in DOMAIN rtags[p] :
                   \E j \in DOMAIN results[p] :
                     /\ results[p][j].tag = rtags[p][i]
                     /\ ~HasHandler(obm, rtags[p][i]) => results[p][j].score = Zero)
  /\ \A p \in Periodics :
       (loopPc[p] = "run" /\ \E i \in DOMAIN rtags[p] : ~HasHandler(obm, rtags[p][i]))
         ~> loopPc[p] = PeriodicArmed

\* a sorted ranking holds a candidate without handler and one that scored above 0
C17_Witness ==
  \E p \in Periodics :
    /\ loopPc[p] = "l124"
    /\ \E j \in DOMAIN results[p] : ~HasHandler(obm, results[p][j].tag)
    /\ \E j \in DOMAIN results[p] : results[p][j].score.num > 0

\* the probe did not get its response: client.Do returned an error, or the
\* body stopped arriving
Failed(o) == o.err \/ o.cut

\* C18: every trial has its score in the runner's list, a trial whose request
\* failed has score 0 there, and a runner goes on after a failed request: it is
\* at work as long as it has run fewer than count trials and it has run count
\* trials when it returns.
C18_FailedTrialScoresZero ==
  \A p \in Periodics :
    loopPc[p] = "run" =>
      \A i \in DOMAIN runner[p] :
        /\ Len(scores[p][i]) = Len(trials[p][i])
        /\ \A k \in DOMAIN trials[p][i] :
             Failed(trials[p][i][k]) => scores[p][i][k] = 0
        /\ runner[p][i] = "trial" => Len(trials[p][i]) < count
        /\ (runner[p][i] = "done" /\ trials[p][i] # << >>)
             => Len(trials[p][i]) = count

\* the number of bytes of the body b
RECURSIVE TotalBytes(_)
TotalBytes(b) ==
  IF b = << >> THEN 0 ELSE b[1].n + b[1].cr + b[1].nl + TotalBytes(Tail(b))

\* C19: the score of a trial that got its whole response is the number of
\* bytes of the body over the elapsed seconds when the body has at least one
\* byte, and 100 over the elapsed seconds when it has none, whatever the body
\* is made of (scores are in half units per second).
C19_ScoreCountsEveryByte ==
  \A p \in Periodics :
    loopPc[p] = "run" =>
      \A i \in DOMAIN runner[p] : \A k \in DOMAIN trials[p][i] :
        LET o == trials[p][i][k] IN
          ~Failed(o) =>
            scores[p][i][k] * o.secs =
              2 * (IF TotalBytes(o.body) >= 1 THEN TotalBytes(o.body) ELSE 100)

\* C20: a loop that has been launched begins its first round without waiting
\* for the interval; every round that has begun completes (every probe comes
\* back); and after every completed round another round begins, whatever the
\* scores of the completed one were (for as many rounds as the model runs).
C20_RoundsKeepStarting ==
  \A p \in Periodics :
    /\ loopPc[p] = "start" ~> begun[p] >= 1
    /\ \A r \in 1..MaxRounds : begun[p] = r ~> rounds[p] >= r
    /\ \A r \in 1..(MaxRounds - 1) : rounds[p] = r ~> begun[p] > r

\* a second round has begun after a first one that published the first candidate
C20_Witness ==
  \E p \in Periodics :
    /\ rounds[p] = 1 /\ begun[p] = 2 /\ loopPc[p] = "run"
    /\ lastPub = StrOf(creatorTags[1])

\* C21: a round never reports failure. From the moment it has begun, whatever
\* its runners meet (no handler, a request that fails, a body cut by the
\* timeout, an empty body), the loop stays in the round until run returns nil,
\* and then it waits for its next round: no step of a round stops the loop.
C21_RoundNeverFails ==
  [][\A p \in Periodics :
       /\ loopPc[p] = "run" => loopPc'[p] \in {"run", "l124"}
       /\ loopPc[p] = "l124" => loopPc'[p] \in {"l124", PeriodicArmed}
       /\ Completes(p) => loopPc'[p] = PeriodicArmed]_vars

\* a round has returned in which one candidate had no handler and the request
\* through the other failed, and the loop has begun its next round
C21_Witness ==
  \E p \in Periodics :
    /\ obm = "m2" /\ net = NetBodies
    /\ rounds[p] = 1 /\ begun[p] = 2
    /\ lastPub = StrOf("bb")

\* the unsigned word w written to the base 1000, least significant digit first
RECURSIVE Thousands(_)
Thousands(w) ==
  IF IsZeroWord(w) THEN << >>
  ELSE <<DivRem(w, 1000).r>> \o Thousands(DivRem(w, 1000).q)

\* the time.Duration d is positive and is n milliseconds, n written to the base
\* 1000: d nanoseconds is n followed by two zero digits
IsMilliseconds(d, n) == d[8] < 128 /\ Thousands(d) = <<0, 0>> \o n

\* C22: a strategy returned by NewOptimalStrategy has, field by field and
\* whatever the other fields of the configuration are: timeout 5 s for Timeout
\* 0 and Timeout milliseconds otherwise; interval 600 s for Interval 0 and
\* Interval milliseconds otherwise; the URL https://www.google.com for the
\* empty Url and the parsed Url otherwise (its scheme in lower case, what
\* follows the scheme as written); count 3 for Count 0 and Count otherwise.
C22_DefaultsPerField ==
  built = "yes" =>
    /\ IsMilliseconds(timeout, IF IsZeroWord(config.Timeout) THEN <<0, 5>>
                               ELSE Thousands(config.Timeout))
    /\ IsMilliseconds(interval, IF IsZeroWord(config.Interval) THEN <<0, 600>>
                                ELSE Thousands(config.Interval))
    /\ ~url.nil
    /\ LET str == UrlString(url)
           cfg == IF config.Url = << >> THEN GoogleUrl ELSE config.Url
       IN /\ Len(str) = Len(cfg)
          /\ \A i \in DOMAIN str :
               str[i] = IF i <= Len(url.Scheme) THEN ToLower(cfg[i]) ELSE cfg[i]
    /\ count = IF config.Count = 0 THEN 3 ELSE config.Count

\* a strategy built from the largest Timeout, Interval 0, a Url and Count 0
C22_Witness ==
  /\ built = "yes"
  /\ config.Timeout = MaxUint32 /\ config.Interval = U32(0)
  /\ config.Url = <<"H", "T", "T", "P">> \o <<":">> \o Slashes \o <<"x">>
  /\ config.Count = 0
  /\ Thousands(timeout) = <<0, 0, 295, 967, 294, 4>>
  /\ count = 3

\* the string s begins with the scheme w, in either case, and a ":"
HasScheme(s, w) ==
  /\ Len(s) > Len(w) /\ s[Len(w) + 1] = ":"
  /\ \A i \in DOMAIN w : ToLower(s[i]) = w[i]

\* C23: NewOptimalStrategy panics, and returns no strategy, exactly when the
\* configured Url is not empty and either url.Parse returns an error for it or
\* its scheme is neither http nor https; for the empty Url and for every Url
\* that parses and has the scheme http or https it returns the strategy.
C23_BadUrlPanics ==
  built # "no" =>
    /\ built = "panic" <=>
         /\ config.Url # << >>
         /\ \/ ParseUrl(config.Url).err
            \/ ~(HasScheme(config.Url, Http) \/ HasScheme(config.Url, Https))
    /\ built = "panic" => count = 0

\* NewOptimalStrategy has panicked on a Url that parses and has the scheme ftp
C23_Witness ==
  /\ built = "panic"
  /\ config.Url = <<"f", "t", "p">> \o <<":">> \o Slashes \o <<"x">>
  /\ ~url.nil /\ url.Scheme = <<"f", "t", "p">>

\* C24: once the loop has been launched, no step of a PickOutbound call changes
\* s.tag. The tag is changed only by the store of the startup default (line
\* 85), made by a call before any loop is launched and any round has
\* published, and by the store that ends a round (line 124).
C24_OnlyRoundsWriteTagAfterStart ==
  /\ [][(launched >= 1 /\ callVars' # callVars) => tag' = tag]_vars
  /\ [][tag' # tag =>
          \/ /\ callVars' # callVars
             /\ launched = 0 /\ \A p \in Periodics : rounds[p] = 0
          \/ /\ callVars' = callVars
             /\ \E p \in Periodics : loopPc[p] = "l124"]_vars

\* a call made with another list of tags has gone through line 82 after a round
\* has published its winner, and the tag is still the winner
C24_Witness ==
  \E c \in Callers :
    /\ launched = 1 /\ rounds[1] = 1 /\ loopPc[1] = PeriodicArmed
    /\ pc[c] = "l95" /\ argTags[c] # creatorTags
    /\ tag = lastPub /\ tag # StrOf(creatorTags[1])

\* C25: once s.periodic refers to a task.Periodic, no step of any PickOutbound
\* call or of any round sets it to nil or to another task.Periodic.
C25_PeriodicSetOnce ==
  [][periodic # 0 => periodic' = periodic]_vars

\* a caller that saw s.periodic == nil at line 82 took the mutex after the loop
\* had run a round, found s.periodic set at line 84 and left it as it was
C25_Witness ==
  \E c \in Callers :
    /\ pc[c] = "l92" /\ periodicMutex = c /\ argTags[c] # creatorTags
    /\ periodic = 1 /\ created = 1 /\ rounds[1] >= 1

\* C26: the runner of a candidate that has a handler runs count trials in a
\* round, one after another: a trial is started only when every trial started
\* before it has left its score, fewer than count trials have been started, and
\* the runner ends on the score of its count-th trial. A runner between two
\* trials can start its next one whatever the other runners are doing.
C26_TrialsInSequence ==
  /\ [][\A p \in Periodics : \A i \in DOMAIN doing[p] :
          /\ doing'[p][i].started > doing[p][i].started =>
               /\ doing[p][i].phase = "idle"
               /\ doing[p][i].started = Len(scores[p][i])
               /\ doing[p][i].started < count
          /\ (Probing(p, i) /\ runner'[p][i] = "done") =>
               /\ Len(scores'[p][i]) = count
               /\ doing[p][i].started =
                    IF doing[p][i].phase = "idle" THEN count - 1 ELSE count]_vars
  /\ [](\A p \in Periodics : \A i \in DOMAIN doing[p] :
          Probing(p, i) =>
            /\ Len(scores[p][i]) =
                 IF doing[p][i].phase = "idle" THEN doing[p][i].started
                 ELSE doing[p][i].started - 1
            /\ doing[p][i].phase = "idle" =>
                 ENABLED (testOutboudDial(p, i) \/ testOutboudDialError(p, i)))

\* the runner of one candidate is in its second trial, its first one scored,
\* while the runner of another candidate is in a trial too
C26_Witness ==
  \E p \in Periodics : \E i, j \in DOMAIN doing[p] :
    /\ i # j /\ Probing(p, i) /\ Probing(p, j)
    /\ Waiting(p, i) /\ Waiting(p, j)
    /\ doing[p][i].started = 2 /\ Len(scores[p][i]) = 1

\* C27: each trial sends one request over one connection dialled for it: while
\* a trial is in progress Dispatch has been started exactly once for it, every
\* connection is the first and only one of its trial, and the connection a
\* runner uses is the one dialled in its current trial.
C27_OneDispatchPerTrial ==
  /\ \A p \in Periodics : \A i \in DOMAIN doing[p] :
       /\ doing[p][i].dials = IF doing[p][i].phase = "idle" THEN 0 ELSE 1
       /\ \A c \in conns :
            (c.p = p /\ c.r = begun[p] /\ c.i = i /\ c.k < doing[p][i].started) =>
              ~IsCur(c, p, i)
  /\ \A c \in conns : c.n = 1

\* C28: when the address of the dial does not parse into a destination, the
\* trial that dials makes no pipe and starts no Dispatch (no connection comes
\* into being, in that step or ever), its score is 0, and the round goes on: the
\* loop stays in the round and the runner goes to its next trial, or is done
\* after its last.
C28_UnparsableDialScoresZero ==
  /\ [](ParseDestinationErr(DialDest(Tcp, canonicalAddr(url))) => conns = {})
  /\ [][\A p \in Periodics : \A i \in DOMAIN doing[p] :
          (/\ ParseDestinationErr(DialDest(Tcp, canonicalAddr(url)))
           /\ Probing(p, i)
           /\ trials'[p][i] # trials[p][i]) =>
            /\ conns' = conns
            /\ doing[p][i].phase = "idle" /\ doing[p][i].dials = 0
            /\ scores'[p][i] = Append(scores[p][i], 0)
            /\ loopPc'[p] = "run"
            /\ runner'[p][i] = IF Len(scores'[p][i]) < count THEN "trial" ELSE "done"]_vars

\* with an address no dial can parse a round has completed and published, and
\* the next round is probing
C28_Witness ==
  /\ ParseDestinationErr(DialDest(Tcp, canonicalAddr(url)))
  /\ \E p \in Periodics :
       /\ rounds[p] = 1 /\ begun[p] = 2
       /\ \E i \in DOMAIN doing[p] : Probing(p, i) /\ Len(scores[p][i]) = 1

\* the connection made by the n-th dial of trial k of runner i in round r still
\* has an open pipe or a running Dispatch
HasConn(p, r, i, k, n) ==
  \E c \in conns : c.p = p /\ c.r = r /\ c.i = i /\ c.k = k /\ c.n = n

C30_TrialsAndRoundsEnd ==
  /\ [](\A p \in Periodics : \A i \in DOMAIN doing[p] :
          /\ doing[p][i].elapsed <= Ticks(timeout)
          /\ doing[p][i].spent <= Ticks(timeout) * count)
  /\ \A p \in Periodics : \A r \in 1..MaxRounds :
       (begun[p] = r) ~> (rounds[p] >= r)

\* in the round after a completed one, a runner whose first trial was cut off
\* at the Timeout while the body was being read is in its last trial, still
\* without an answer when the Timeout expires: Timeout x trialCount has passed
C30_Witness ==
  \E p \in Periodics : \E i \in DOMAIN doing[p] :
    /\ rounds[p] = 1 /\ Probing(p, i)
    /\ trials[p][i] # << >> /\ trials[p][i][1].cut
    /\ doing[p][i].phase = "sent" /\ doing[p][i].started = count
    /\ doing[p][i].elapsed = Ticks(timeout)
    /\ doing[p][i].spent = Ticks(timeout) * count

\* C31: in a round a result slot changes only in the step in which its own
\* runner ends, and then only its score; that step writes no field of the
\* strategy.  The tags of the slots are those of the snapshot, written when the
\* round begins and the runners are not yet running, and the loop leaves
\* wg.Wait() for the sort only when every runner has ended.
C31_RunnerOwnsItsSlot ==
  [][\A p \in Periodics :
       /\ (loopPc[p] = "run" /\ loopPc'[p] = "run") =>
            \A j \in DOMAIN results[p] :
              /\ results'[p][j].tag = results[p][j].tag
              /\ results'[p][j] # results[p][j] =>
                   /\ runner[p][j] = "trial" /\ runner'[p][j] = "done"
                   /\ \A k \in DOMAIN results[p] \ {j} :
                        results'[p][k] = results[p][k] /\ runner'[p][k] = runner[p][k]
                   /\ UNCHANGED <<stratVars, rtags>>
       /\ (loopPc[p] # "run" /\ loopPc'[p] = "run") =>
            \A j \in DOMAIN results'[p] :
              results'[p][j].tag = rtags'[p][j] /\ runner'[p][j] = "go"
       /\ (loopPc[p] = "run" /\ loopPc'[p] # "run") =>
            \A j \in DOMAIN results[p] : runner[p][j] = "done"]_vars

\* both runners of a round have ended with a score above 0 in their slots, the
\* slots still carry the tags of the snapshot in its order, and the sort has
\* not begun
C31_Witness ==
  \E p \in Periodics :
    /\ loopPc[p] = "run" /\ Len(results[p]) = 2
    /\ \A j \in DOMAIN results[p] :
         /\ runner[p][j] = "done"
         /\ results[p][j].tag = rtags[p][j]
         /\ results[p][j].score.num > 0
    /\ results[p][1].score # results[p][2].score

\* the lists handed to PickOutbound calls with two or more tags so far
ListsPassed == {argTags[c] : c \in {d \in Callers : Len(argTags[d]) >= 2}}

\* C32: the candidates of a round are a list that a PickOutbound call with two
\* or more tags had passed when the round began; while the round is in progress
\* no call changes them, the ranked slots carry exactly their tags, and the tag
\* the round publishes is one of them.
C32_RoundWorksOnStoredList ==
  /\ [](\A p \in Periodics : loopPc[p] \in {"run", "l124"} =>
          /\ rtags[p] \in ListsPassed
          /\ {results[p][j].tag : j \in DOMAIN results[p]} =
               {rtags[p][j] : j \in DOMAIN rtags[p]})
  /\ [][\A p \in Periodics :
          /\ (loopPc[p] \in {"run", "l124"} /\ loopPc'[p] \in {"run", "l124"}) =>
               rtags'[p] = rtags[p]
          /\ rounds'[p] # rounds[p] =>
               \E j \in DOMAIN rtags[p] : lastPub' = StrOf(rtags[p][j])]_vars

\* C33: the runners of a round look their handlers up in s.obm (line 135) when
\* they run; all of them use the manager stored when the round began only if
\* s.obm keeps its value for as long as a runner of the round has its lookup
\* still to make.
C33_OneManagerPerRound ==
  [][\A p \in Periodics :
       (loopPc[p] = "run" /\ \E i \in DOMAIN runner[p] : runner[p][i] = "go") =>
         obm' = obm]_vars

\* C34: a round that is executing has a snapshot of two or more tags and as
\* many result slots, so results[0] exists when line 124 reads it.
C34_RoundHasTwoCandidates ==
  \A p \in Periodics : loopPc[p] \in {"run", "l124"} =>
    /\ Len(rtags[p]) >= 2
    /\ Len(results[p]) = Len(rtags[p])
    /\ tags.len >= 2

\* a round is at line 124 after a call with one tag has returned
C34_Witness ==
  \E p \in Periodics : \E c \in Callers :
    /\ loopPc[p] = "l124" /\ Len(results[p]) = 2
    /\ Len(argTags[c]) = 1 /\ ret[c].kind = "tag"

\* the runners of the round that have not returned
Running(p) == {i \in DOMAIN runner[p] : runner[p][i] # "done"}

\* C35: the counter of the round's wait group is the number of runners that
\* have not returned, so it is never negative; a runner lowers it by one in the
\* step in which it returns, whether it found no handler or made its trials,
\* and never again; and once every runner has returned wg.Wait() returns and
\* the loop goes on to the sort.
C35_EveryRunnerSignalsOnce ==
  /\ [](\A p \in Periodics :
          /\ wg[p] >= 0
          /\ loopPc[p] = "run" => wg[p] = Cardinality(Running(p)))
  /\ [][\A p \in Periodics :
          (loopPc[p] = "run" /\ loopPc'[p] = "run") =>
            /\ Running(p) \ Running(p)' = {} => wg'[p] = wg[p]
            /\ \A i \in Running(p) \ Running(p)' :
                 wg'[p] = wg[p] - 1 /\ Running(p)' = Running(p) \ {i}
            /\ Running(p)' \subseteq Running(p)]_vars
  /\ \A p \in Periodics :
       (loopPc[p] = "run" /\ Running(p) = {}) ~> (loopPc[p] = "l124")

\* wg.Wait() is about to return in a round of seven runners: five found no
\* handler, one made a trial that failed, one a trial that succeeded
C35_Witness ==
  \E p \in Periodics :
    /\ loopPc[p] = "run" /\ wg[p] = 0 /\ Len(runner[p]) = 7
    /\ Cardinality({i \in DOMAIN trials[p] : trials[p][i] = << >>}) = 5
    /\ \E i \in DOMAIN trials[p] : trials[p][i] # << >> /\ trials[p][i][1].err
    /\ \E i \in DOMAIN trials[p] : trials[p][i] # << >> /\ ~trials[p][i][1].err

\* runner i has made all its trials and exactly one of them succeeded
OneSucceeded(p, i) ==
  /\ Len(trials[p][i]) = count
  /\ Cardinality({k \in DOMAIN trials[p][i] : ~Failed(trials[p][i][k])}) = 1

\* runner i has made all its trials and none of them succeeded
NoneSucceeded(p, i) ==
  /\ Len(trials[p][i]) = count
  /\ \A k \in DOMAIN trials[p][i] : Failed(trials[p][i][k])

\* where the tag t stands in the results as the sort leaves them
RankOf(d, t) == CHOOSE j \in DOMAIN d : d[j].tag = t

\* C36: with three or more trials, a candidate of which exactly one trial
\* succeeded stores the score 0, as does a candidate of which no trial
\* succeeded, and the sort leaves it behind every candidate without a
\* successful trial that stands before it in the round's list.
C36_OneSuccessScoresZero ==
  /\ [](\A p \in Periodics : \A i \in DOMAIN runner[p] :
          (Scored(p, i) /\ count >= 3 /\ (OneSucceeded(p, i) \/ NoneSucceeded(p, i))) =>
            results[p][i].score.num = 0)
  /\ [][\A p \in Periodics :
          (loopPc[p] = "run" /\ loopPc'[p] = "l124" /\ count >= 3) =>
            \A i, j \in DOMAIN rtags[p] :
              (i < j /\ NoneSucceeded(p, i) /\ OneSucceeded(p, j)) =>
                RankOf(results'[p], rtags[p][i]) < RankOf(results'[p], rtags[p][j])]_vars

\* C37: the trial count of a strategy is at least 1, and a runner that has made
\* its trials divides by a number that is at least 1 and has not wrapped: by
\* the trial count when that is 1 or 2, and by the trial count less two, taking
\* the trimmed branch, only when it is 3 or more.
C37_DivisorAtLeastOne ==
  /\ count >= 1
  /\ \A p \in Periodics : \A i \in DOMAIN runner[p] :
       Scored(p, i) =>
         LET d == results[p][i].score.den IN
           /\ Len(scores[p][i]) = count
           /\ d >= 1 /\ d <= count
           /\ count \in {1, 2} => d = count
           /\ count >= 3 => d = count - 2
           /\ d = count - 2 => count >= 3

\* runners have divided by 1 in the trimmed branch (three trials) and by 2 in
\* the mean branch (two trials)
C37_Witness ==
  \E p \in Periodics : \E i \in DOMAIN runner[p] :
    /\ Scored(p, i) /\ results[p][i].score.num > 0
    /\ count = 3 /\ results[p][i].score.den = 1

\* the time.Duration d is strictly positive and is exactly c milliseconds: the
\* int64 is above zero and dividing it by the nanoseconds of a millisecond
\* gives back c with nothing left over
IsPositiveMs(d, c) ==
  /\ d[8] < 128 /\ ~IsZeroWord(d)
  /\ DivRem(d, 1000000).r = 0
  /\ DivRem(d, 1000000).q = ZeroExtend(c, 8)

\* C38: for every Timeout and Interval of 32 bits other than 0 the product of
\* line 43 and of line 48 stays within int64: the duration is strictly positive
\* and is the configured number of milliseconds; for 0 the default is positive.
C38_MillisecondsFitInt64 ==
  built = "yes" =>
    /\ IsPositiveMs(timeout, IF IsZeroWord(config.Timeout) THEN U32(5000)
                             ELSE config.Timeout)
    /\ IsPositiveMs(interval, IF IsZeroWord(config.Interval) THEN U32(600000)
                              ELSE config.Interval)

\* a strategy has been built with the largest Timeout and the largest Interval
C38_Witness ==
  /\ built = "yes"
  /\ config.Timeout = MaxUint32 /\ config.Interval = MaxUint32
====
